---- MODULE Spec2Model ----
(***************************************************************************)
(* Model of the task / document reconciliation layer of the Personal AI    *)
(* Productivity Assistant: the in-memory task store (CRUD route), the      *)
(* AI task generation / extraction routes, the task library functions and  *)
(* the AI response normalizers of AIClient.                                *)
(*                                                                         *)
(* Conventions                                                             *)
(*  - A JavaScript object is a function from field names to values; a      *)
(*    field that is absent is not in the DOMAIN.  The object spread        *)
(*    {...a, ...b} is  b @@ a.                                             *)
(*  - A Date is its time value, an integer; the time value of an Invalid   *)
(*    Date (NaN) is InvalidDate.                                           *)
(*  - Date.now() is the variable now; it never goes backwards.             *)
(*  - Math.random().toString(36).substr(2, 9) is a choice from RandVals.   *)
(*  - The task store serves at most MaxRequests requests and holds at most *)
(*    MaxStore tasks; texts and AI answers are bounded in length.          *)
(*                                                                         *)
(* Spec is the task store route, SpecGen the generation and extraction     *)
(* routes, SpecNorm the normalizers applied to every bounded raw text,     *)
(* SpecDoc the document and chat routes, SpecLib the task library,         *)
(* SpecBoard and SpecTasks the task board, SpecUI the document UI with the *)
(* routes that answer it, SpecCmd the voice command parser and SpecChat    *)
(* the chat with its voice recording.                                      *)
(***************************************************************************)
EXTENDS Integers, Sequences, FiniteSets, TLC

VARIABLES
    now,            \* the clock, Date.now()
    tasksStore,     \* tasks route: let tasksStore: Task[]
    status,         \* HTTP status of the last response of a route (0: none yet)
    requests,       \* how many requests the routes have served (bounded by MaxRequests),
                    \* how many events the task board has handled (bounded by MaxEvents)
    upd,            \* the last accepted PUT: the task before and after
    partials,       \* what the AI returned to the last generation request (<<>> if nothing)
    generated,      \* processedTasks of the last generation request (<<>> if it failed)
    extractStore,   \* extract-tasks route: its own let documentsStore: any[]
    raw,            \* the raw AI response text handed to a normalizer
    shape,          \* which normalizer ran last ("none" before the first)
    result,         \* what that normalizer returned
    aiRequested,    \* whether the last request of a route was sent on to the AI endpoint
    documentsStore, \* upload route: let documentsStore: Document[]
    analysisStore,  \* analysis route: its own let documentsStore: any[]
    docReq,         \* the last request to a documents route: which route, which document
    tasks,          \* the task collection handed to the task library / the task board
    call,           \* the last call of a task library function, with its arguments
    out,            \* what that call returned
    aiFetches,      \* how many requests the last call of an AI route sent to the AI endpoint
    errorBody,      \* the error body of that route's response (NoError when it succeeded)
    documents,      \* DocumentUpload: the documents prop, the collection its parent holds
    inflight,       \* DocumentUpload: the fetches awaited, each with the documents of the
                    \* render its handler was created in
    timers,         \* DocumentUpload: the pending setTimeout callbacks (auto-analysis)
    uiLog,          \* what the document UI has done: results received, deletes confirmed
    uiEvents,       \* how many events the document UI has handled (bounded by MaxEvents)
    isRecording,    \* AIChat: the isRecording state
    isListening,    \* AIChat: the isListening state
    currentSession, \* VoiceManager: private currentSession (Null when there is none)
    recognition,    \* VoiceManager: private recognition, the browser's recognizer
    polls,          \* AIChat: the setInterval session polls not yet cleared
    voiceTimers,    \* AIChat: the pending 30-second setTimeout callbacks
    voiceCount,     \* how many voice sessions were created, how many transcripts recognized
    messages,       \* AIChat: the messages state
    isLoading,      \* AIChat: the isLoading state
    chatInflight,   \* AIChat: the calls of handleSendMessage awaiting fetch or speak
    sends,          \* how many user messages handleSendMessage has appended
    chatEvents      \* how many events the user gave AIChat (bounded by MaxChatEvents)

taskVars == <<tasksStore, upd>>
genVars  == <<partials, generated, extractStore, aiRequested>>
normVars == <<raw, shape, result>>
docVars  == <<documentsStore, analysisStore, docReq>>
libVars  == <<tasks, call, out>>
aiVars   == <<aiFetches, errorBody>>
uiVars   == <<documents, inflight, timers, uiLog, uiEvents>>
voiceVars == <<isRecording, isListening, currentSession, recognition, polls, voiceTimers,
               voiceCount>>
chatVars == <<messages, isLoading, chatInflight, sends, chatEvents>>
clientVars == <<uiVars, voiceVars, chatVars>>
vars == <<now, status, requests, taskVars, genVars, normVars, docVars, libVars, aiVars,
          clientVars>>

----------------------------------------------------------------------------
(* Bounds of the model *)
MaxClock == 1
MaxStore == 2
MaxRequests == 4
MaxRecs  == 2
MaxTextLen == 5

(* Values *)
InvalidDate == 0 - 1
RandVals == {"k3x9q2m1z", "a7b8c9d0e"}
NonString == "<number 42>"
IsoDates == ("1970-01-01T00:00:00.001Z" :> 1) @@ ("1970-01-01T00:00:00.003Z" :> 3)
Priorities == {"low", "medium", "high", "urgent"}
Statuses == {"todo", "in-progress", "completed", "cancelled"}

NoId == <<>>
UnknownId == <<"task", 0 - 1, "nosuchtask">>

Has(o, k) == k \in DOMAIN o

(* o[k] || d  for a string field: absent and "" are falsy *)
StrOr(o, k, d) == IF Has(o, k) /\ o[k] # "" THEN o[k] ELSE d

(* o[k] || d  for an array field: every array is truthy *)
ArrOr(o, k, d) == IF Has(o, k) THEN o[k] ELSE d

(* o[k] || false  for a boolean field *)
BoolOr(o, k) == Has(o, k) /\ o[k]

(* new Date(s).getTime() for a date string s *)
ParseDate(s) == IF s \in DOMAIN IsoDates THEN IsoDates[s] ELSE InvalidDate

(* ...(o.dueDate && { dueDate: new Date(o.dueDate) }) *)
DueDateSpread(o) ==
    IF Has(o, "dueDate") /\ o.dueDate # ""
    THEN [dueDate |-> ParseDate(o.dueDate)]
    ELSE <<>>

(* ...(o.sourceDocument && { sourceDocument: o.sourceDocument }) *)
SourceDocumentSpread(o) ==
    IF Has(o, "sourceDocument") /\ o.sourceDocument # ""
    THEN [sourceDocument |-> o.sourceDocument]
    ELSE <<>>

(* `task_${Date.now()}_${Math.random().toString(36).substr(2, 9)}` *)
generateTaskId(t, r) == <<"task", t, r>>

----------------------------------------------------------------------------
(* The task store route *)

PostBodies ==
    { <<>>,
      [title |-> ""],
      [title |-> NonString],
      [title |-> "Buy milk"],
      [title |-> "Buy milk", priority |-> "critical", status |-> "bogus",
       dueDate |-> "next friday"],
      [title |-> "Pay rent", description |-> "before the 1st", priority |-> "high",
       status |-> "completed", category |-> "home", tags |-> <<"money">>,
       aiGenerated |-> TRUE, dueDate |-> "1970-01-01T00:00:00.001Z",
       sourceDocument |-> "lease.txt"] }

PutChanges ==
    { [status |-> "completed"],
      [createdAt |-> MaxClock + 1, priority |-> "critical"],
      [title |-> "Pay rent", dueDate |-> "next friday"] }

IdsOf(store) == {store[i].id : i \in 1..Len(store)}

(* findIndex that answers with the first place when no task has the id *)
FindIndexFirstOnMiss(store, id) ==
    IF \E i \in 1..Len(store) : store[i].id = id
    THEN CHOOSE i \in 1..Len(store) :
            store[i].id = id /\ \A j \in 1..(i - 1) : store[j].id # id
    ELSE IF Len(store) > 0 THEN 1 ELSE 0

(* store.findIndex(task => task.id === id); 0 stands for -1 *)
FindIndex(store, id) ==
    IF \E i \in 1..Len(store) : store[i].id = id
    THEN CHOOSE i \in 1..Len(store) :
            store[i].id = id /\ \A j \in 1..(i - 1) : store[j].id # id
    ELSE 0

(* store.splice(i, 1) *)
Splice(store, i) == [j \in 1..(Len(store) - 1) |-> IF j < i THEN store[j] ELSE store[j + 1]]

(* The task POST builds from the request body *)
NewTask(taskData, t, r) ==
    SourceDocumentSpread(taskData) @@ DueDateSpread(taskData) @@
    [id |-> generateTaskId(t, r),
     title |-> taskData.title,
     description |-> StrOr(taskData, "description", ""),
     priority |-> StrOr(taskData, "priority", "medium"),
     status |-> StrOr(taskData, "status", "todo"),
     category |-> StrOr(taskData, "category", "general"),
     createdAt |-> t,
     updatedAt |-> t,
     tags |-> ArrOr(taskData, "tags", <<>>),
     aiGenerated |-> BoolOr(taskData, "aiGenerated")]

(* The task PUT builds from the stored task and the request body *)
UpdatedTask(old, taskData, t) ==
    DueDateSpread(taskData) @@ [updatedAt |-> t] @@ taskData @@ old

NoUpdate == [kind |-> "none"]

(* No documents route has been requested yet *)
NoRequest == [op |-> "none"]

(* No task library function has been called yet *)
NoCall == [fn |-> "none"]

(* No error body: the response carries a result *)
NoError == <<>>

(* this.currentSession = null *)
NoSession == [absent |-> TRUE]

(* session.transcript of a session no result has been written to *)
NoTranscript == [absent |-> TRUE]

(* No promise of startRecording awaits the start of the recognizer *)
NoPromise == [absent |-> TRUE]

(* The message AIChat starts with.  send: the call of handleSendMessage a    *)
(* message belongs to (0: none); heard: the recognized transcript it carries *)
(* (0: none)                                                                *)
WelcomeMessage ==
    [role |-> "assistant", content |-> "Hello! I'm your Personal AI Assistant.",
     type |-> "text", send |-> 0, heard |-> 0]

(* The client components before the first event *)
InitClient ==
    /\ documents = <<>>
    /\ inflight = <<>>
    /\ timers = <<>>
    /\ uiLog = {}
    /\ uiEvents = 0
    /\ isRecording = FALSE
    /\ isListening = FALSE
    /\ currentSession = NoSession
    /\ recognition = [state |-> "idle", resulted |-> FALSE, awaiting |-> NoPromise]
    /\ polls = {}
    /\ voiceTimers = {}
    /\ voiceCount = [sessions |-> 0, transcripts |-> 0]
    /\ messages = <<WelcomeMessage>>
    /\ isLoading = FALSE
    /\ chatInflight = <<>>
    /\ sends = 0
    /\ chatEvents = 0

POST(taskData) ==
    /\ requests < MaxRequests
    /\ requests' = requests + 1
    /\ IF ~Has(taskData, "title") \/ taskData.title = "" \/ taskData.title = NonString
       THEN /\ status' = 400
            /\ UNCHANGED tasksStore
       ELSE /\ Len(tasksStore) < MaxStore
            /\ \E r \in RandVals :
                 tasksStore' = Append(tasksStore, NewTask(taskData, now, r))
            /\ status' = 201
    /\ UNCHANGED <<now, upd, genVars, normVars, docVars, aiVars, clientVars, libVars>>

PUT(id, changes) ==
    LET taskData == IF id = NoId THEN changes ELSE [id |-> id] @@ changes
        taskIndex == FindIndex(tasksStore, id)
    IN  /\ requests < MaxRequests
        /\ requests' = requests + 1
        /\ IF id = NoId
           THEN /\ status' = 400
                /\ UNCHANGED <<tasksStore, upd>>
           ELSE IF taskIndex = 0
           THEN /\ status' = 404
                /\ UNCHANGED <<tasksStore, upd>>
           ELSE LET updatedTask == UpdatedTask(tasksStore[taskIndex], taskData, now)
                IN  /\ tasksStore' = [tasksStore EXCEPT ![taskIndex] = updatedTask]
                    /\ upd' = [kind |-> "PUT", before |-> tasksStore[taskIndex],
                               after |-> updatedTask]
                    /\ status' = 200
        /\ UNCHANGED <<now, genVars, normVars, docVars, aiVars, clientVars, libVars>>

DELETE(taskId) ==
    LET taskIndex == FindIndex(tasksStore, taskId)
    IN  /\ requests < MaxRequests
        /\ requests' = requests + 1
        /\ IF taskId = NoId
           THEN /\ status' = 400
                /\ UNCHANGED tasksStore
           ELSE IF taskIndex = 0
           THEN /\ status' = 404
                /\ UNCHANGED tasksStore
           ELSE /\ tasksStore' = Splice(tasksStore, taskIndex)
                /\ status' = 200
        /\ UNCHANGED <<now, upd, genVars, normVars, docVars, aiVars, clientVars, libVars>>

(* Time passes between two requests *)
Tick ==
    /\ now < MaxClock
    /\ now' = now + 1
    /\ UNCHANGED <<status, requests, taskVars, genVars, normVars, docVars, aiVars, clientVars, libVars>>

Init ==
    /\ now = 0
    /\ tasksStore = <<>>
    /\ status = 0
    /\ requests = 0
    /\ upd = NoUpdate
    /\ partials = <<>>
    /\ generated = <<>>
    /\ extractStore = <<>>
    /\ raw = <<>>
    /\ shape = "none"
    /\ result = <<>>
    /\ aiRequested = FALSE
    /\ documentsStore = <<>>
    /\ analysisStore = <<>>
    /\ docReq = NoRequest
    /\ tasks = <<>>
    /\ call = NoCall
    /\ out = <<>>
    /\ aiFetches = 0
    /\ errorBody = NoError
    /\ InitClient

Next ==
    \/ Tick
    \/ \E taskData \in PostBodies : POST(taskData)
    \/ \E id \in IdsOf(tasksStore) \cup {NoId, UnknownId}, changes \in PutChanges : PUT(id, changes)
    \/ \E taskId \in IdsOf(tasksStore) \cup {NoId, UnknownId} : DELETE(taskId)

Spec == Init /\ [][Next]_vars

----------------------------------------------------------------------------
(* The AI task generation route and the document task extraction route *)

JsonNull == [jsonNull |-> TRUE]

(* The records of the array aiClient.generateTasks may resolve to *)
PartialRecs ==
    { <<>>,
      [title |-> "", priority |-> "critical", status |-> "completed",
       aiGenerated |-> FALSE, dueDate |-> ""],
      [title |-> "   ", dueDate |-> "next friday"],
      [title |-> "Buy milk", description |-> "2 litres", priority |-> "high",
       category |-> "home", tags |-> <<"shop">>,
       dueDate |-> "1970-01-01T00:00:00.001Z"] }

(* The arrays aiClient.generateTasks may resolve to: records, or an array   *)
(* holding null *)
AIAnswers == UNION {[1..n -> PartialRecs] : n \in 0..MaxRecs} \cup {<<JsonNull>>}

(* ProcessedTask with  taskData.title ?? 'Untitled Task'  in place of ||:  an *)
(* empty title is kept *)
ProcessedTaskEmptyTitleKept(taskData, t, r) ==
    DueDateSpread(taskData) @@
    [id |-> generateTaskId(t, r),
     title |-> IF Has(taskData, "title") THEN taskData.title ELSE "Untitled Task",
     description |-> StrOr(taskData, "description", ""),
     priority |-> StrOr(taskData, "priority", "medium"),
     status |-> "todo",
     category |-> StrOr(taskData, "category", "general"),
     createdAt |-> t,
     updatedAt |-> t,
     tags |-> ArrOr(taskData, "tags", <<>>),
     aiGenerated |-> TRUE]

(* The callback of generatedTasks.map in the ai-generate route *)
ProcessedTask(taskData, t, r) ==
    DueDateSpread(taskData) @@
    [id |-> generateTaskId(t, r),
     title |-> StrOr(taskData, "title", "Untitled Task"),
     description |-> StrOr(taskData, "description", ""),
     priority |-> StrOr(taskData, "priority", "medium"),
     status |-> "todo",
     category |-> StrOr(taskData, "category", "general"),
     createdAt |-> t,
     updatedAt |-> t,
     tags |-> ArrOr(taskData, "tags", <<>>),
     aiGenerated |-> TRUE]

(* The callback of extractedTasks.map in the extract-tasks route *)
ProcessedExtractedTask(taskData, t, r, document) ==
    DueDateSpread(taskData) @@
    [id |-> generateTaskId(t, r),
     title |-> StrOr(taskData, "title", "Untitled Task"),
     description |-> StrOr(taskData, "description", ""),
     priority |-> StrOr(taskData, "priority", "medium"),
     status |-> "todo",
     category |-> StrOr(taskData, "category", "general"),
     createdAt |-> t,
     updatedAt |-> t,
     tags |-> ArrOr(taskData, "tags", <<>>),
     aiGenerated |-> TRUE,
     sourceDocument |-> document.name]

(* The Error a method of AIClient throws from its catch when the request to *)
(* the AI endpoint fails (fetch rejects, or the status is not OK)           *)
AIClientErrors ==
    [chat |-> "Failed to get AI response. Please try again.",
     analyzeDocument |-> "Failed to analyze document. Please try again.",
     generateTasks |-> "Failed to generate tasks. Please try again."]

(* A method of AIClient that sends the request again after a failure *)
FetchesRetried(aiOk) == IF aiOk THEN 1 ELSE 2

(* The requests one call of a method of AIClient sends to the AI endpoint:  *)
(* one await fetch, whether it resolves or not                              *)
Fetches(aiOk) == 1

(* { error, details: error instanceof Error ? error.message : ... } *)
ErrorBody(error, details) == [error |-> error, details |-> details]

(* The message of the TypeError that reading a property of null throws *)
TypeErrorMessage == "Cannot read properties of null (reading 'title')"

(* POST /api/tasks/ai-generate.  inputOk: body.input is a non-empty string;  *)
(* aiOk: aiClient.generateTasks resolved (to recs) rather than threw.  The   *)
(* map over the records runs within one reading of the clock.                *)
AIGeneratePOST(inputOk, aiOk) ==
    /\ aiRequested' = inputOk
    /\ IF ~inputOk
       THEN /\ status' = 400
            /\ partials' = <<>>
            /\ generated' = <<>>
            /\ aiFetches' = 0
            /\ errorBody' = [error |-> "Input text is required for task generation"]
       ELSE IF ~aiOk
       THEN /\ status' = 500
            /\ partials' = <<>>
            /\ generated' = <<>>
            /\ aiFetches' = Fetches(aiOk)
            /\ errorBody' = ErrorBody("Failed to generate tasks with AI",
                                      AIClientErrors.generateTasks)
       ELSE \E recs \in AIAnswers :
            /\ partials' = recs
            /\ aiFetches' = Fetches(aiOk)
            /\ IF \E i \in 1..Len(recs) : recs[i] = JsonNull
               THEN \* reading taskData.title of null throws: the outer catch
                    /\ status' = 500
                    /\ generated' = <<>>
                    /\ errorBody' = ErrorBody("Failed to generate tasks with AI",
                                              TypeErrorMessage)
               ELSE \E rs \in [1..Len(recs) -> RandVals] :
                    /\ generated' = [i \in 1..Len(recs) |-> ProcessedTask(recs[i], now, rs[i])]
                    /\ status' = 200
                    /\ errorBody' = NoError
    /\ UNCHANGED <<now, requests, taskVars, extractStore, normVars, docVars, libVars,
                   clientVars>>

(* documentsStore.find / findIndex of the extract-tasks route; 0 stands for  *)
(* undefined / -1 *)
FindDocument(store, documentId) ==
    IF \E i \in 1..Len(store) : store[i].id = documentId
    THEN CHOOSE i \in 1..Len(store) :
            store[i].id = documentId /\ \A j \in 1..(i - 1) : store[j].id # documentId
    ELSE 0

(* The guards in front of the AI call with the lookup and the content test  *)
(* left out: every request that names a document is sent on                 *)
ReachesAIUnchecked(store, documentId) == documentId # NoId

(* The guards both document routes pass before they call the AI: the body   *)
(* names a document, the route's store holds it, and its content is truthy  *)
ReachesAI(store, documentId) ==
    /\ documentId # NoId
    /\ FindDocument(store, documentId) # 0
    /\ Has(store[FindDocument(store, documentId)], "content")
    /\ store[FindDocument(store, documentId)].content # ""

(* POST /api/documents/extract-tasks.  documentId NoId stands for a body     *)
(* without documentId.  The route reads its own module-level documentsStore, *)
(* which no code of the route (or of any other module) adds to.              *)
ExtractTasksPOST(documentId, aiOk) ==
    LET docIndex == FindDocument(extractStore, documentId)
    IN  /\ aiRequested' = ReachesAI(extractStore, documentId)
        /\ IF documentId = NoId
           THEN /\ status' = 400
                /\ partials' = <<>>
                /\ generated' = <<>>
                /\ aiFetches' = 0
                /\ errorBody' = [error |-> "Document ID is required for task extraction"]
                /\ UNCHANGED extractStore
           ELSE IF docIndex = 0
           THEN /\ status' = 404
                /\ partials' = <<>>
                /\ generated' = <<>>
                /\ aiFetches' = 0
                /\ errorBody' = [error |-> "Document not found"]
                /\ UNCHANGED extractStore
           ELSE IF ~Has(extractStore[docIndex], "content") \/ extractStore[docIndex].content = ""
           THEN /\ status' = 400
                /\ partials' = <<>>
                /\ generated' = <<>>
                /\ aiFetches' = 0
                /\ errorBody' = [error |-> "Document has no content to extract tasks from"]
                /\ UNCHANGED extractStore
           ELSE IF ~aiOk
           THEN /\ status' = 500
                /\ partials' = <<>>
                /\ generated' = <<>>
                /\ aiFetches' = Fetches(aiOk)
                /\ errorBody' = ErrorBody("AI failed to extract tasks from document",
                                          AIClientErrors.generateTasks)
                /\ UNCHANGED extractStore
           ELSE \E recs \in AIAnswers :
                /\ partials' = recs
                /\ aiFetches' = Fetches(aiOk)
                /\ IF \E i \in 1..Len(recs) : recs[i] = JsonNull
                   THEN /\ status' = 500
                        /\ generated' = <<>>
                        /\ errorBody' = ErrorBody("AI failed to extract tasks from document",
                                                  TypeErrorMessage)
                        /\ UNCHANGED extractStore
                   ELSE \E rs \in [1..Len(recs) -> RandVals] :
                        LET processedTasks ==
                                [i \in 1..Len(recs) |->
                                    ProcessedExtractedTask(recs[i], now, rs[i],
                                                           extractStore[docIndex])]
                        IN  /\ generated' = processedTasks
                            /\ extractStore' = [extractStore EXCEPT ![docIndex] =
                                                    [extractedTasks |-> processedTasks] @@ @]
                            /\ status' = 200
                            /\ errorBody' = NoError
        /\ docReq' = [op |-> "extract-tasks", documentId |-> documentId]
        /\ UNCHANGED <<now, requests, taskVars, normVars, documentsStore, analysisStore,
                       libVars, voiceVars, chatVars>>

(* An id no document has *)
UnknownDocId == <<"doc", 0 - 1, "nosuchdoc">>

DocumentIds == {NoId, UnknownDocId}

NextGen ==
    \/ Tick
    \/ \E inputOk \in BOOLEAN, aiOk \in BOOLEAN : AIGeneratePOST(inputOk, aiOk)
    \/ \E documentId \in DocumentIds, aiOk \in BOOLEAN :
          ExtractTasksPOST(documentId, aiOk) /\ UNCHANGED uiVars

SpecGen == Init /\ [][NextGen]_vars

----------------------------------------------------------------------------
(* The document routes: upload (with its store), analysis and extraction    *)

(* const maxSize = 10 * 1024 * 1024, in units of a megabyte *)
MaxFileSize == 10

NoFile == [absent |-> TRUE]

(* The files of the upload form.  text is what file.text() resolves to. *)
Files ==
    { NoFile,
      [name |-> "notes.txt", type |-> "text/plain", size |-> 1, text |-> "call Bob"],
      [name |-> "empty.txt", type |-> "text/plain", size |-> 0, text |-> ""],
      [name |-> "scan.pdf", type |-> "application/pdf", size |-> 2, text |-> "%PDF"],
      [name |-> "huge.txt", type |-> "text/plain", size |-> MaxFileSize + 1,
       text |-> "a very long text"],
      [name |-> "pic.png", type |-> "image/png", size |-> 1, text |-> "PNG"] }

(* supportedTypes.some(type => file.type.toLowerCase().includes(subtype)) *)
IsSupported(type) == type \in {"text/plain", "application/pdf"}

(* file.type.includes('text/') || file.type.includes('application/json') *)
IsText(type) == type = "text/plain"

(* `[Binary File: ${file.name} - ${file.type} - ${file.size} bytes]`: a      *)
(* text that is never empty                                                 *)
BinaryPlaceholder(file) == "[Binary File: name - type - size bytes]"

(* `doc_${Date.now()}_${Math.random().toString(36).substr(2, 9)}` *)
generateDocumentId(t, r) == <<"doc", t, r>>

(* The upload route's document with analysisComplete already set *)
NewDocumentAnalysed(file, t, r) ==
    [id |-> generateDocumentId(t, r),
     name |-> file.name,
     type |-> file.type,
     size |-> file.size,
     uploadedAt |-> t,
     content |-> IF IsText(file.type) THEN file.text ELSE BinaryPlaceholder(file),
     analysisComplete |-> TRUE]

(* The document the upload route builds from the file *)
NewDocument(file, t, r) ==
    [id |-> generateDocumentId(t, r),
     name |-> file.name,
     type |-> file.type,
     size |-> file.size,
     uploadedAt |-> t,
     content |-> IF IsText(file.type) THEN file.text ELSE BinaryPlaceholder(file),
     analysisComplete |-> FALSE]

(* POST /api/documents/upload *)
UploadPOST(file) ==
    /\ requests < MaxRequests
    /\ requests' = requests + 1
    /\ docReq' = [op |-> "upload", documentId |-> NoId]
    /\ aiRequested' = FALSE
    /\ IF file = NoFile
       THEN /\ status' = 400
            /\ UNCHANGED documentsStore
       ELSE IF file.size > MaxFileSize \/ ~IsSupported(file.type)
       THEN /\ status' = 400
            /\ UNCHANGED documentsStore
       ELSE /\ Len(documentsStore) < MaxStore
            /\ \E r \in RandVals :
                 documentsStore' = Append(documentsStore, NewDocument(file, now, r))
            /\ status' = 201
    /\ UNCHANGED <<now, taskVars, partials, generated, extractStore, normVars,
                   analysisStore, libVars, aiVars, voiceVars, chatVars>>

(* DELETE /api/documents/upload?id= *)
UploadDELETE(documentId) ==
    LET documentIndex == FindDocument(documentsStore, documentId)
    IN  /\ requests < MaxRequests
        /\ requests' = requests + 1
        /\ docReq' = [op |-> "delete", documentId |-> documentId]
        /\ aiRequested' = FALSE
        /\ IF documentId = NoId
           THEN /\ status' = 400
                /\ UNCHANGED documentsStore
           ELSE IF documentIndex = 0
           THEN /\ status' = 404
                /\ UNCHANGED documentsStore
           ELSE /\ documentsStore' = Splice(documentsStore, documentIndex)
                /\ status' = 200
        /\ UNCHANGED <<now, taskVars, partials, generated, extractStore, normVars,
                       analysisStore, libVars, aiVars, clientVars>>

Undefined == [undefined |-> TRUE]

(* What aiClient.analyzeDocument may resolve to: whatever                   *)
(* parseDocumentAnalysis returns, an object with or without each key        *)
AnalysisResults ==
    { <<>>,
      [summary |-> "two tasks"],
      [summary |-> "two tasks", insights |-> <<"short">>, extractedTasks |-> <<>>] }

(* analysisResult.k, undefined when the result lacks k *)
Prop(o, k) == IF Has(o, k) THEN o[k] ELSE Undefined

(* POST of the document analysis endpoint.  It reads its own module-level   *)
(* documentsStore, which no code adds to.                                   *)
AnalyzePOST(documentId, aiOk) ==
    LET docIndex == FindDocument(analysisStore, documentId)
    IN  /\ requests < MaxRequests
        /\ requests' = requests + 1
        /\ docReq' = [op |-> "analyze", documentId |-> documentId]
        /\ aiRequested' = ReachesAI(analysisStore, documentId)
        /\ IF documentId = NoId
           THEN /\ status' = 400
                /\ aiFetches' = 0
                /\ errorBody' = [error |-> "Document ID is required for analysis"]
                /\ UNCHANGED analysisStore
           ELSE IF docIndex = 0
           THEN /\ status' = 404
                /\ aiFetches' = 0
                /\ errorBody' = [error |-> "Document not found"]
                /\ UNCHANGED analysisStore
           ELSE IF ~Has(analysisStore[docIndex], "content")
                     \/ analysisStore[docIndex].content = ""
           THEN /\ status' = 400
                /\ aiFetches' = 0
                /\ errorBody' = [error |-> "Document has no content to analyze"]
                /\ UNCHANGED analysisStore
           ELSE IF ~aiOk
           THEN /\ status' = 500
                /\ aiFetches' = Fetches(aiOk)
                /\ errorBody' = ErrorBody("Failed to analyze document",
                                          AIClientErrors.analyzeDocument)
                /\ UNCHANGED analysisStore
           ELSE \E analysisResult \in AnalysisResults :
                LET updatedDocument ==
                        [summary |-> Prop(analysisResult, "summary"),
                         insights |-> Prop(analysisResult, "insights"),
                         extractedTasks |-> Prop(analysisResult, "extractedTasks"),
                         analysisComplete |-> TRUE] @@ analysisStore[docIndex]
                IN  /\ analysisStore' = [analysisStore EXCEPT ![docIndex] = updatedDocument]
                    /\ status' = 200
                    /\ aiFetches' = Fetches(aiOk)
                    /\ errorBody' = NoError
        /\ UNCHANGED <<now, taskVars, partials, generated, extractStore, normVars,
                       documentsStore, libVars, voiceVars, chatVars>>

(* POST /api/ai/chat.  messageOk: body.message is a non-empty string; aiOk: *)
(* aiClient.chat resolved rather than threw.                                *)
ChatPOST(messageOk, aiOk) ==
    /\ docReq' = [op |-> "chat", documentId |-> NoId]
    /\ aiRequested' = messageOk
    /\ IF ~messageOk
       THEN /\ status' = 400
            /\ aiFetches' = 0
            /\ errorBody' = [error |-> "Message is required and must be a string"]
       ELSE IF ~aiOk
       THEN /\ status' = 500
            /\ aiFetches' = Fetches(aiOk)
            /\ errorBody' = ErrorBody("Failed to process chat request",
                                      AIClientErrors.chat)
       ELSE /\ status' = 200
            /\ aiFetches' = Fetches(aiOk)
            /\ errorBody' = NoError
    /\ UNCHANGED <<now, requests, taskVars, partials, generated, extractStore, normVars,
                   documentsStore, analysisStore, libVars, uiVars>>

(* The ids a client may name: none, an unknown one, those of the uploads *)
KnownDocumentIds == DocumentIds \cup {documentsStore[i].id : i \in 1..Len(documentsStore)}

NextDoc ==
    \/ Tick
    \/ \E file \in Files : UploadPOST(file) /\ UNCHANGED uiVars
    \/ \E documentId \in KnownDocumentIds : UploadDELETE(documentId)
    \/ \E documentId \in KnownDocumentIds, aiOk \in BOOLEAN :
          AnalyzePOST(documentId, aiOk) /\ UNCHANGED uiVars
    \/ \E documentId \in KnownDocumentIds, aiOk \in BOOLEAN :
          ExtractTasksPOST(documentId, aiOk) /\ UNCHANGED uiVars
    \/ \E messageOk \in BOOLEAN, aiOk \in BOOLEAN :
          ChatPOST(messageOk, aiOk) /\ UNCHANGED <<voiceVars, chatVars>>

SpecDoc == Init /\ [][NextDoc]_vars

----------------------------------------------------------------------------
(* The AI response normalizers of AIClient *)

(* A raw response is a sequence of tokens.  "{" "}" "[" "]" "," are the      *)
(* JSON punctuation, " " is white space, "x" is a letter of prose (never     *)
(* part of a JSON literal), and each member token stands for one             *)
(* "key": "text"  pair of an object.                                         *)
MemberTokens == {"summary", "response"}
Tokens == {"{", "}", "[", "]", ",", " ", "x"} \cup MemberTokens
Texts == UNION {[1..n -> Tokens] : n \in 0..MaxTextLen}

(* The value a member token carries: a text *)
MemberValue(m) == IF m = "summary" THEN <<"o", "k">> ELSE <<"h", "i">>

(* String.prototype.trim *)
RECURSIVE Trim(_)
Trim(s) ==
    IF s = <<>> THEN s
    ELSE IF Head(s) = " " THEN Trim(Tail(s))
    ELSE IF s[Len(s)] = " " THEN Trim(SubSeq(s, 1, Len(s) - 1))
    ELSE s

(* Match with the lazy quantifier, /\{[\s\S]*?\}/: the leftmost opening      *)
(* bracket through the first closing bracket after it                        *)
MatchLazy(s, open, close) ==
    LET opens == {i \in 1..Len(s) : s[i] = open}
    IN  IF \E i \in opens, j \in 1..Len(s) : i < j /\ s[j] = close
        THEN LET first == CHOOSE i \in opens : \A k \in opens : i <= k
                 after == {j \in (first + 1)..Len(s) : s[j] = close}
                 last  == CHOOSE j \in after : \A k \in after : j <= k
             IN  SubSeq(s, first, last)
        ELSE <<>>

(* response.match(/\{[\s\S]*\}/) and response.match(/\[[\s\S]*\]/): the      *)
(* leftmost opening bracket through the last closing bracket of the text;    *)
(* <<>> stands for null (no match)                                           *)
Match(s, open, close) ==
    LET opens  == {i \in 1..Len(s) : s[i] = open}
        closes == {i \in 1..Len(s) : s[i] = close}
    IN  IF \E i \in opens, j \in closes : i < j
        THEN LET first == CHOOSE i \in opens : \A k \in opens : i <= k
                 last  == CHOOSE j \in closes : \A k \in closes : k <= j
             IN  SubSeq(s, first, last)
        ELSE <<>>

(* Nesting depth in front of position k *)
Depth(s, k) ==
    Cardinality({i \in 1..(k - 1) : s[i] \in {"{", "["}})
      - Cardinality({i \in 1..(k - 1) : s[i] \in {"}", "]"}})

(* The pieces of s between its commas at nesting depth 0 *)
RECURSIVE SplitTop(_)
SplitTop(s) ==
    LET commas == {k \in 1..Len(s) : s[k] = "," /\ Depth(s, k) = 0}
    IN  IF commas = {} THEN <<s>>
        ELSE LET k == CHOOSE c \in commas : \A d \in commas : c <= d
             IN  <<SubSeq(s, 1, k - 1)>> \o SplitTop(SubSeq(s, k + 1, Len(s)))

JsonFail == [ok |-> FALSE]

(* JSON.parse of a token sequence: [ok |-> FALSE] stands for a SyntaxError. *)
(* An object is [type |-> "object", fields |-> key -> text], an array is    *)
(* [type |-> "array", items |-> a sequence of values].                      *)
RECURSIVE JsonParse(_)
JsonParse(text) ==
    LET s == Trim(text)
        inner == Trim(SubSeq(s, 2, Len(s) - 1))
        pieces == IF inner = <<>> THEN <<>> ELSE SplitTop(inner)
    IN  IF Len(s) < 2 THEN JsonFail
        ELSE IF s[1] = "{" /\ s[Len(s)] = "}"
        THEN IF \A i \in 1..Len(pieces) :
                    Len(Trim(pieces[i])) = 1 /\ Trim(pieces[i])[1] \in MemberTokens
             THEN [ok |-> TRUE,
                   val |-> [type |-> "object",
                            fields |-> [k \in {Trim(pieces[i])[1] : i \in 1..Len(pieces)}
                                          |-> MemberValue(k)]]]
             ELSE JsonFail
        ELSE IF s[1] = "[" /\ s[Len(s)] = "]"
        THEN IF \A i \in 1..Len(pieces) : JsonParse(pieces[i]).ok
             THEN [ok |-> TRUE,
                   val |-> [type |-> "array",
                            items |-> [i \in 1..Len(pieces) |-> JsonParse(pieces[i]).val]]]
             ELSE JsonFail
        ELSE JsonFail

(* Each raw response is handed to one normalizer, once (AIClient.chat,      *)
(* analyzeDocument and generateTasks each parse the response they fetched). *)
(* What a normalizer does: it returns a value or lets an exception escape *)
Returns(v) == [raised |-> FALSE, value |-> v]
Raises == [raised |-> TRUE]

(* { k: parsed[k] } when parsed has k; a field holding undefined is absent *)
Field(fields, k) == IF Has(fields, k) THEN k :> fields[k] ELSE <<>>

(* parseAIResponse whose fallback forgets response.trim() *)
parseAIResponseUntrimmed(response) ==
    LET jsonMatch == Match(response, "{", "}")
        parsed == JsonParse(jsonMatch)
    IN  IF jsonMatch # <<>> /\ parsed.ok
        THEN Returns(Field(parsed.val.fields, "suggestions")
                     @@ Field(parsed.val.fields, "generatedTasks")
                     @@ Field(parsed.val.fields, "actions")
                     @@ [response |-> IF Has(parsed.val.fields, "response")
                                      THEN parsed.val.fields.response
                                      ELSE response])
        ELSE Returns([response |-> response,
                      suggestions |-> <<>>,
                      generatedTasks |-> <<>>])

parseAIResponse(response) ==
    LET jsonMatch == Match(response, "{", "}")
        parsed == JsonParse(jsonMatch)
    IN  IF jsonMatch # <<>> /\ parsed.ok
        THEN Returns(Field(parsed.val.fields, "suggestions")
                     @@ Field(parsed.val.fields, "generatedTasks")
                     @@ Field(parsed.val.fields, "actions")
                     @@ [response |-> IF Has(parsed.val.fields, "response")
                                      THEN parsed.val.fields.response
                                      ELSE response])
        ELSE Returns([response |-> Trim(response),
                      suggestions |-> <<>>,
                      generatedTasks |-> <<>>])

parseDocumentAnalysis(response) ==
    LET jsonMatch == Match(response, "{", "}")
        parsed == JsonParse(jsonMatch)
    IN  IF jsonMatch # <<>> /\ parsed.ok
        THEN Returns(parsed.val.fields)
        ELSE Returns([summary |-> response,
                      insights |-> <<>>,
                      extractedTasks |-> <<>>,
                      keyTopics |-> <<>>,
                      actionItems |-> <<>>])

(* parseTasksFromResponse with JSON.parse outside of the try block *)
parseTasksFromResponseUncaught(response) ==
    LET jsonMatch == Match(response, "[", "]")
        parsed == JsonParse(jsonMatch)
    IN  IF jsonMatch = <<>> THEN Returns(<<>>)
        ELSE IF parsed.ok THEN Returns(parsed.val.items)
        ELSE Raises

parseTasksFromResponse(response) ==
    LET jsonMatch == Match(response, "[", "]")
        parsed == JsonParse(jsonMatch)
    IN  IF jsonMatch # <<>> /\ parsed.ok
        THEN Returns(parsed.val.items)
        ELSE Returns(<<>>)

ParseChat ==
    /\ shape = "none"
    /\ shape' = "chat"
    /\ result' = parseAIResponse(raw)
    /\ UNCHANGED <<now, status, requests, taskVars, genVars, docVars, aiVars, clientVars, libVars, raw>>

ParseDocument ==
    /\ shape = "none"
    /\ shape' = "document"
    /\ result' = parseDocumentAnalysis(raw)
    /\ UNCHANGED <<now, status, requests, taskVars, genVars, docVars, aiVars, clientVars, libVars, raw>>

ParseTasks ==
    /\ shape = "none"
    /\ shape' = "tasks"
    /\ result' = parseTasksFromResponse(raw)
    /\ UNCHANGED <<now, status, requests, taskVars, genVars, docVars, aiVars, clientVars, libVars, raw>>

InitNorm ==
    /\ now = 0
    /\ tasksStore = <<>>
    /\ status = 0
    /\ requests = 0
    /\ upd = NoUpdate
    /\ partials = <<>>
    /\ generated = <<>>
    /\ extractStore = <<>>
    /\ raw \in Texts
    /\ shape = "none"
    /\ result = <<>>
    /\ aiRequested = FALSE
    /\ documentsStore = <<>>
    /\ analysisStore = <<>>
    /\ docReq = NoRequest
    /\ tasks = <<>>
    /\ call = NoCall
    /\ out = <<>>
    /\ aiFetches = 0
    /\ errorBody = NoError
    /\ InitClient

NextNorm ==
    \/ ParseChat
    \/ ParseDocument
    \/ ParseTasks

SpecNorm == InitNorm /\ [][NextNorm]_vars

----------------------------------------------------------------------------
(* The task library (filterTasks, sortTasks, calculateTaskStats,            *)
(* getTasksDueToday, getOverdueTasks) and the listing of the task store     *)

MaxTasks == 3

(* A local day lasts DayLength units of time: setHours(0, 0, 0, 0) rounds a *)
(* time down to a multiple of it, setDate(getDate() + 1) adds it            *)
DayLength == 2

(* new Date('9999-12-31').getTime() *)
FarFuture == 8

(* The number NaN *)
NaN == 0 - 999

(* The names every object literal inherits from Object.prototype *)
ObjectPrototypeKeys == {"constructor", "toString", "valueOf", "hasOwnProperty"}

Titles == <<"Buy milk", "Call Bob", "Pay rent">>

(* A task as createTask and updateTask build it from the forms of the board *)
LibTask(n, title, st, priority, category, createdAt, aiGenerated) ==
    [id |-> generateTaskId(createdAt, n),
     title |-> title,
     priority |-> priority,
     status |-> st,
     category |-> category,
     createdAt |-> createdAt,
     updatedAt |-> createdAt,
     tags |-> <<>>,
     aiGenerated |-> aiGenerated]

Due(d, task) == [dueDate |-> d] @@ task

(* The tasks the collections are made of.  With now in the second day       *)
(* (DayLength <= now < 2 * DayLength) they are due yesterday, at the start  *)
(* of today, later today, at the start of tomorrow, after 9999-12-31, or    *)
(* have no due date.  Two are tasks as the routes store and return them     *)
(* unchecked: one whose dueDate is an Invalid Date (new Date of a text that *)
(* is no date), one whose priority is none of the four.                     *)
LibTasks ==
    { Due(DayLength - 1,
          LibTask("a", "Pay rent", "todo", "low", "work", 0, FALSE)),
      Due(DayLength - 1,
          LibTask("b", "Buy milk", "cancelled", "urgent", "work", 0, TRUE)),
      Due(DayLength,
          LibTask("c", "Call Bob", "completed", "high", "home", 1, FALSE)),
      Due(DayLength + 1,
          LibTask("d", "Buy milk", "in-progress", "high", "constructor", 1, FALSE)),
      LibTask("e", "Pay rent", "todo", "medium", "home", 2, TRUE),
      Due(2 * DayLength,
          LibTask("f", "Call Bob", "in-progress", "urgent", "constructor", 3, FALSE)),
      Due(FarFuture + 1,
          LibTask("g", "Buy milk", "todo", "low", "general", 0, TRUE)),
      LibTask("h", "Call Bob", "todo", "medium", "general", 3, FALSE),
      Due(InvalidDate,
          LibTask("i", "Pay rent", "todo", "medium", "work", 1, TRUE)),
      LibTask("j", "Call Bob", "todo", "critical", "general", 2, TRUE) }

(* The collections: up to MaxTasks tasks, no task twice *)
TaskLists ==
    {ts \in UNION {[1..n -> LibTasks] : n \in 0..MaxTasks} :
        \A i, j \in 1..Len(ts) : i # j => ts[i] # ts[j]}

(* a < b and a <= b of two Dates: false when either is an Invalid Date *)
DateLt(a, b) == a # InvalidDate /\ b # InvalidDate /\ a < b
DateLe(a, b) == a # InvalidDate /\ b # InvalidDate /\ a <= b

(* date.setHours(0, 0, 0, 0) *)
StartOfDay(d) == IF d = InvalidDate THEN InvalidDate ELSE d - (d % DayLength)

(* date.setDate(date.getDate() + 1) *)
NextDay(d) == IF d = InvalidDate THEN InvalidDate ELSE d + DayLength

(* date.getTime() *)
getTime(d) == IF d = InvalidDate THEN NaN ELSE d

(* a - b of two numbers *)
Minus(a, b) == IF a = NaN \/ b = NaN THEN NaN ELSE a - b

(* -a *)
Negate(a) == IF a = NaN THEN NaN ELSE 0 - a

(* getOverdueTasks with the test of 'cancelled' left out *)
getOverdueTasksCancelledKept(ts, t) ==
    SelectSeq(ts, LAMBDA task :
        /\ Has(task, "dueDate")
        /\ DateLt(task.dueDate, t)
        /\ task.status # "completed")

getOverdueTasks(ts, t) ==
    SelectSeq(ts, LAMBDA task :
        /\ Has(task, "dueDate")
        /\ DateLt(task.dueDate, t)
        /\ task.status # "completed"
        /\ task.status # "cancelled")

(* getTasksDueToday with  dueDate <= tomorrow  in place of  dueDate < tomorrow *)
getTasksDueTodayTomorrowKept(ts, t) ==
    LET today == StartOfDay(t)
        tomorrow == NextDay(today)
    IN  SelectSeq(ts, LAMBDA task :
            /\ Has(task, "dueDate")
            /\ DateLe(today, StartOfDay(task.dueDate))
            /\ DateLe(StartOfDay(task.dueDate), tomorrow))

getTasksDueToday(ts, t) ==
    LET today == StartOfDay(t)
        tomorrow == NextDay(today)
    IN  SelectSeq(ts, LAMBDA task :
            /\ Has(task, "dueDate")
            /\ DateLe(today, StartOfDay(task.dueDate))
            /\ DateLt(StartOfDay(task.dueDate), tomorrow))

(* Whether obj[k] is truthy for an object literal obj holding numbers: an   *)
(* own 0 or NaN is falsy, a name inherited from Object.prototype is a       *)
(* function and truthy, any other name is undefined                         *)
IsTruthyAt(obj, k) ==
    IF Has(obj, k) THEN obj[k] # 0 /\ obj[k] # NaN ELSE k \in ObjectPrototypeKeys

(* obj[k]++ : undefined and functions convert to NaN *)
Increment(obj, k) ==
    LET old == IF Has(obj, k) THEN obj[k] ELSE NaN
    IN  (k :> (IF old = NaN THEN NaN ELSE old + 1)) @@ obj

(* The body of tasks.forEach in calculateTaskStats *)
StatsStep(stats, task, t) ==
    [total |-> stats.total,
     completed |-> stats.completed + (IF task.status = "completed" THEN 1 ELSE 0),
     inProgress |-> stats.inProgress + (IF task.status = "in-progress" THEN 1 ELSE 0),
     overdue |-> stats.overdue +
                   (IF /\ Has(task, "dueDate")
                       /\ DateLt(task.dueDate, t)
                       /\ task.status # "completed"
                    THEN 1 ELSE 0),
     byPriority |-> Increment(stats.byPriority, task.priority),
     byCategory |-> Increment(IF IsTruthyAt(stats.byCategory, task.category)
                              THEN stats.byCategory
                              ELSE (task.category :> 0) @@ stats.byCategory,
                              task.category)]

RECURSIVE StatsFrom(_, _, _)
StatsFrom(ts, stats, t) ==
    IF ts = <<>> THEN stats ELSE StatsFrom(Tail(ts), StatsStep(stats, Head(ts), t), t)

calculateTaskStats(ts, t) ==
    StatsFrom(ts,
              [total |-> Len(ts), completed |-> 0, inProgress |-> 0, overdue |-> 0,
               byPriority |-> [p \in Priorities |-> 0],
               byCategory |-> <<>>],
              t)

(* The criteria handed to filterTasks: a TaskFilter, each field optional.   *)
(* An array is held as the set of its elements (it is only searched).       *)
Filters ==
    { <<>>,
      [status |-> {"todo", "in-progress"}],
      [status |-> {}],
      [priority |-> {"urgent", "low"}],
      [category |-> {"home", "work"}],
      [aiGenerated |-> FALSE],
      [aiGenerated |-> TRUE],
      [dateRange |-> [start |-> DayLength - 1, end |-> DayLength + 1]],
      [dateRange |-> [start |-> 0, end |-> 0]],
      [status |-> {"todo", "completed"}, priority |-> {"low", "high", "medium"},
       category |-> {"work", "home", "general"}, aiGenerated |-> FALSE,
       dateRange |-> [start |-> DayLength, end |-> FarFuture + 1]] }

(* task.dueDate || task.createdAt *)
TaskDate(task) == IF Has(task, "dueDate") THEN task.dueDate ELSE task.createdAt

(* The callback of tasks.filter in filterTasks: true when no test returns    *)
(* false                                                                     *)
FilterKeeps(task, filter) ==
    /\ ~(Has(filter, "status") /\ task.status \notin filter.status)
    /\ ~(Has(filter, "priority") /\ task.priority \notin filter.priority)
    /\ ~(Has(filter, "category") /\ task.category \notin filter.category)
    /\ ~(Has(filter, "aiGenerated") /\ task.aiGenerated # filter.aiGenerated)
    /\ ~(/\ Has(filter, "dateRange")
         /\ \/ DateLt(TaskDate(task), filter.dateRange.start)
            \/ DateLt(filter.dateRange.end, TaskDate(task)))

filterTasks(ts, filter) == SelectSeq(ts, LAMBDA task : FilterKeeps(task, filter))

priorityOrder == [urgent |-> 4, high |-> 3, medium |-> 2, low |-> 1]
statusOrder == ("todo" :> 1) @@ ("in-progress" :> 2) @@ ("completed" :> 3) @@ ("cancelled" :> 4)

(* order[k] as a number: undefined takes part in arithmetic as NaN *)
OrderOf(order, k) == IF k \in DOMAIN order THEN order[k] ELSE NaN

(* a.localeCompare(b) on the titles *)
localeCompare(a, b) ==
    LET pos(x) == CHOOSE i \in 1..Len(Titles) : Titles[i] = x
    IN  IF pos(a) < pos(b) THEN 0 - 1 ELSE IF pos(a) > pos(b) THEN 1 ELSE 0

SortOptions == {"priority", "dueDate", "createdAt", "title", "status"}

(* comparison, as the switch of sortTasks computes it *)
Comparison(a, b, sortBy) ==
    CASE sortBy = "priority" ->
            Minus(OrderOf(priorityOrder, a.priority), OrderOf(priorityOrder, b.priority))
      [] sortBy = "dueDate" ->
            Minus(getTime(IF Has(a, "dueDate") THEN a.dueDate ELSE FarFuture),
                  getTime(IF Has(b, "dueDate") THEN b.dueDate ELSE FarFuture))
      [] sortBy = "createdAt" -> Minus(getTime(a.createdAt), getTime(b.createdAt))
      [] sortBy = "title" -> localeCompare(a.title, b.title)
      [] sortBy = "status" ->
            Minus(OrderOf(statusOrder, a.status), OrderOf(statusOrder, b.status))
      [] OTHER -> 0

(* The comparator of the GET route for sortBy=dueDate *)
RouteDueDateCompare(a, b) ==
    IF ~Has(a, "dueDate") /\ ~Has(b, "dueDate") THEN 0
    ELSE IF ~Has(a, "dueDate") THEN 1
    ELSE IF ~Has(b, "dueDate") THEN 0 - 1
    ELSE Minus(getTime(a.dueDate), getTime(b.dueDate))

(* The comparators handed to Array.prototype.sort.  how.fn names the caller: *)
(* sortTasks (with sortBy and ascending) or the GET route (with sortBy).     *)
Comparator(a, b, how) ==
    IF how.fn = "sortTasks"
    THEN IF how.ascending THEN Comparison(a, b, how.sortBy)
         ELSE Negate(Comparison(a, b, how.sortBy))
    ELSE IF how.sortBy = "priority"
    THEN Minus(OrderOf(priorityOrder, b.priority), OrderOf(priorityOrder, a.priority))
    ELSE RouteDueDateCompare(a, b)

(* Array.prototype.sort reads a comparator result of NaN as +0 *)
SortCompare(v) == IF v = NaN THEN 0 ELSE v

(* One step of a stable insertion sort: x goes behind the last element that *)
(* does not compare greater than it                                         *)
RECURSIVE InsertSorted(_, _, _)
InsertSorted(s, x, how) ==
    IF s = <<>> THEN <<x>>
    ELSE IF SortCompare(Comparator(s[Len(s)], x, how)) > 0
    THEN Append(InsertSorted(SubSeq(s, 1, Len(s) - 1), x, how), s[Len(s)])
    ELSE Append(s, x)

(* A stable sort: with a consistent comparator every stable sort returns    *)
(* this array                                                               *)
RECURSIVE StableSort(_, _)
StableSort(s, how) ==
    IF s = <<>> THEN <<>>
    ELSE InsertSorted(StableSort(SubSeq(s, 1, Len(s) - 1), how), s[Len(s)], how)

(* The arrays that hold the elements of s, each once *)
Arrangements(s) ==
    {p \in [1..Len(s) -> {s[i] : i \in 1..Len(s)}] :
        \A i, j \in 1..Len(s) : i # j => p[i] # p[j]}

(* What Array.prototype.sort may leave in the array.  It is a stable sort   *)
(* (ECMAScript 2019) when the comparator is consistent; when a comparison   *)
(* yields NaN the comparator is not, and the order of the result is         *)
(* implementation-defined.                                                  *)
ArraySort(s, how) ==
    IF \A i, j \in 1..Len(s) : Comparator(s[i], s[j], how) # NaN
    THEN {StableSort(s, how)}
    ELSE Arrangements(s)

(* The arrays sortTasks may return *)
sortTasks(ts, sortBy, ascending) ==
    ArraySort(ts, [fn |-> "sortTasks", sortBy |-> sortBy, ascending |-> ascending])

(* searchParams.get(name): a value, or null *)
Null == "<null>"
Queries ==
    [filter : {Null, "today", "overdue"},
     sortBy : {Null, "priority", "dueDate"},
     category : {Null, "home"},
     status : {Null, "todo"}]

(* What GET /api/tasks may answer with: filteredTasks *)
GETTasks(store, query, t) ==
    LET byStatus == IF query.status # Null
                    THEN SelectSeq(store, LAMBDA task : task.status = query.status)
                    ELSE store
        byCategory == IF query.category # Null
                      THEN SelectSeq(byStatus, LAMBDA task : task.category = query.category)
                      ELSE byStatus
        today == StartOfDay(t)
        tomorrow == NextDay(today)
        byToday == IF query.filter = "today"
                   THEN SelectSeq(byCategory, LAMBDA task :
                            /\ Has(task, "dueDate")
                            /\ DateLe(today, StartOfDay(task.dueDate))
                            /\ DateLt(StartOfDay(task.dueDate), tomorrow))
                   ELSE byCategory
        byOverdue == IF query.filter = "overdue"
                     THEN SelectSeq(byToday, LAMBDA task :
                            /\ Has(task, "dueDate")
                            /\ DateLt(task.dueDate, t)
                            /\ task.status # "completed"
                            /\ task.status # "cancelled")
                     ELSE byToday
    IN  IF query.sortBy \in {"priority", "dueDate"}
        THEN ArraySort(byOverdue, [fn |-> "GET", sortBy |-> query.sortBy])
        ELSE {byOverdue}

(* One call of a library function on the collection, or one GET of the      *)
(* store that holds it                                                      *)
FilterTasksCall(filter) ==
    /\ call.fn = "none"
    /\ call' = [fn |-> "filterTasks", filter |-> filter]
    /\ out' = filterTasks(tasks, filter)
    /\ UNCHANGED <<now, status, requests, taskVars, genVars, normVars, docVars, aiVars, clientVars, tasks>>

SortTasksCall(sortBy, ascending) ==
    /\ call.fn = "none"
    /\ call' = [fn |-> "sortTasks", sortBy |-> sortBy, ascending |-> ascending]
    /\ out' \in sortTasks(tasks, sortBy, ascending)
    /\ UNCHANGED <<now, status, requests, taskVars, genVars, normVars, docVars, aiVars, clientVars, tasks>>

CalculateTaskStatsCall ==
    /\ call.fn = "none"
    /\ call' = [fn |-> "calculateTaskStats"]
    /\ out' = calculateTaskStats(tasks, now)
    /\ UNCHANGED <<now, status, requests, taskVars, genVars, normVars, docVars, aiVars, clientVars, tasks>>

GetTasksDueTodayCall ==
    /\ call.fn = "none"
    /\ call' = [fn |-> "getTasksDueToday"]
    /\ out' = getTasksDueToday(tasks, now)
    /\ UNCHANGED <<now, status, requests, taskVars, genVars, normVars, docVars, aiVars, clientVars, tasks>>

GetOverdueTasksCall ==
    /\ call.fn = "none"
    /\ call' = [fn |-> "getOverdueTasks"]
    /\ out' = getOverdueTasks(tasks, now)
    /\ UNCHANGED <<now, status, requests, taskVars, genVars, normVars, docVars, aiVars, clientVars, tasks>>

GET(query) ==
    /\ call.fn = "none"
    /\ call' = [fn |-> "GET", query |-> query]
    /\ out' \in GETTasks(tasksStore, query, now)
    /\ status' = 200
    /\ UNCHANGED <<now, requests, taskVars, genVars, normVars, docVars, aiVars, clientVars, tasks>>

(* A collection, at a time of the second day; the task store holds the same *)
(* tasks                                                                    *)
InitLib ==
    /\ now \in DayLength..(2 * DayLength - 1)
    /\ tasks \in TaskLists
    /\ tasksStore = tasks
    /\ status = 0
    /\ requests = 0
    /\ upd = NoUpdate
    /\ partials = <<>>
    /\ generated = <<>>
    /\ extractStore = <<>>
    /\ aiRequested = FALSE
    /\ documentsStore = <<>>
    /\ analysisStore = <<>>
    /\ docReq = NoRequest
    /\ raw = <<>>
    /\ shape = "none"
    /\ result = <<>>
    /\ call = NoCall
    /\ out = <<>>
    /\ aiFetches = 0
    /\ errorBody = NoError
    /\ InitClient

NextLib ==
    \/ \E filter \in Filters : FilterTasksCall(filter)
    \/ \E sortBy \in SortOptions, ascending \in BOOLEAN : SortTasksCall(sortBy, ascending)
    \/ CalculateTaskStatsCall
    \/ GetTasksDueTodayCall
    \/ GetOverdueTasksCall
    \/ \E query \in Queries : GET(query)

SpecLib == InitLib /\ [][NextLib]_vars

----------------------------------------------------------------------------
(* The task board (TaskBoard, TaskCard, CreateTaskDialog) over the library  *)
(* functions createTask, updateTask and completeTask.  The board hands each *)
(* new collection to onTasksChange; its parent gives it back as the tasks   *)
(* prop, which is the variable tasks.                                       *)

MaxEvents == 3

(* A dueDate key that holds undefined; a field holding undefined is absent *)
UndefinedDate == 0 - 2

Defined(o) ==
    IF Has(o, "dueDate") /\ o.dueDate = UndefinedDate
    THEN [k \in DOMAIN o \ {"dueDate"} |-> o[k]]
    ELSE o

(* createTask: the defaults, overwritten by the partial *)
createTask(partial, t, r) ==
    Defined(partial @@
            [id |-> generateTaskId(t, r),
             title |-> <<>>,
             priority |-> "medium",
             status |-> "todo",
             category |-> "general",
             createdAt |-> t,
             updatedAt |-> t,
             tags |-> <<>>,
             aiGenerated |-> FALSE])

(* updateTask that leaves a completed or cancelled task as it is *)
updateTaskTerminalKept(task, updates, t) ==
    IF task.status \in {"completed", "cancelled"}
    THEN task
    ELSE Defined([updatedAt |-> t] @@ updates @@ task)

(* updateTask: { ...task, ...updates, updatedAt: new Date() } *)
updateTask(task, updates, t) == Defined([updatedAt |-> t] @@ updates @@ task)

completeTask(task, t) == updateTask(task, [status |-> "completed"], t)

(* formData of CreateTaskDialog when the form is submitted; a text is a     *)
(* sequence of characters                                                   *)
CreateForms ==
    { [title |-> <<" ", " ">>, description |-> <<>>, priority |-> "medium",
       category |-> "general", dueDate |-> ""],
      [title |-> <<" ", "a", " ">>, description |-> <<" ">>, priority |-> "high",
       category |-> "", dueDate |-> ""],
      [title |-> <<"b">>, description |-> <<"c">>, priority |-> "low",
       category |-> "home", dueDate |-> "1970-01-01T00:00:00.001Z"] }

(* editForm of a TaskCard when Save is clicked *)
EditForms ==
    { [title |-> <<>>, description |-> <<>>, priority |-> "urgent",
       status |-> "in-progress", category |-> "work", dueDate |-> ""],
      [title |-> <<"b">>, description |-> <<"c">>, priority |-> "low",
       status |-> "cancelled", category |-> "home",
       dueDate |-> "1970-01-01T00:00:00.003Z"] }

(* handleTaskUpdate: tasks.map(task => task.id === updatedTask.id ?          *)
(* updatedTask : task)                                                      *)
handleTaskUpdate(ts, updatedTask) ==
    [i \in 1..Len(ts) |-> IF ts[i].id = updatedTask.id THEN updatedTask ELSE ts[i]]

(* handleTaskCreate that leaves out a task whose title the collection has *)
handleTaskCreateDeduplicated(ts, newTask) ==
    IF \E i \in 1..Len(ts) : ts[i].title = newTask.title
    THEN ts
    ELSE Append(ts, newTask)

(* handleTaskCreate: [...tasks, newTask] *)
handleTaskCreate(ts, newTask) == Append(ts, newTask)

(* CreateTaskDialog.handleSubmit, then handleTaskCreate *)
HandleSubmit(formData) ==
    /\ requests < MaxEvents
    /\ requests' = requests + 1
    /\ IF Trim(formData.title) = <<>>
       THEN UNCHANGED <<tasks, upd>>
       ELSE /\ Len(tasks) < MaxStore
            /\ \E r \in RandVals :
                 LET newTask ==
                         createTask([title |-> Trim(formData.title),
                                     description |-> Trim(formData.description),
                                     priority |-> formData.priority,
                                     category |-> StrOr(formData, "category", "general"),
                                     dueDate |-> IF formData.dueDate # ""
                                                 THEN ParseDate(formData.dueDate)
                                                 ELSE UndefinedDate],
                                    now, r)
                 IN  /\ tasks' = handleTaskCreate(tasks, newTask)
                     /\ upd' = [kind |-> "handleSubmit", after |-> newTask]
    /\ UNCHANGED <<now, status, tasksStore, genVars, normVars, docVars, aiVars, clientVars, call, out>>

(* TaskCard.handleStatusChange of the card at place i, then handleTaskUpdate *)
HandleStatusChange(i, newStatus) ==
    LET updatedTask == updateTask(tasks[i], [status |-> newStatus], now)
    IN  /\ requests < MaxEvents
        /\ requests' = requests + 1
        /\ tasks' = handleTaskUpdate(tasks, updatedTask)
        /\ upd' = [kind |-> "handleStatusChange", before |-> tasks[i],
                   after |-> updatedTask, newStatus |-> newStatus]
        /\ UNCHANGED <<now, status, tasksStore, genVars, normVars, docVars, aiVars, clientVars, call, out>>

(* TaskCard.handleComplete; the button shows unless the task is completed *)
HandleComplete(i) ==
    LET completedTask == completeTask(tasks[i], now)
    IN  /\ requests < MaxEvents
        /\ tasks[i].status # "completed"
        /\ requests' = requests + 1
        /\ tasks' = handleTaskUpdate(tasks, completedTask)
        /\ upd' = [kind |-> "handleComplete", before |-> tasks[i],
                   after |-> completedTask, newStatus |-> "completed"]
        /\ UNCHANGED <<now, status, tasksStore, genVars, normVars, docVars, aiVars, clientVars, call, out>>

(* TaskCard.handleSaveEdit *)
HandleSaveEdit(i, editForm) ==
    LET updatedTask ==
            updateTask(tasks[i],
                       [title |-> IF editForm.title # <<>> THEN editForm.title
                                  ELSE <<"Untitled Task">>,
                        description |-> editForm.description,
                        priority |-> editForm.priority,
                        status |-> editForm.status,
                        category |-> editForm.category,
                        dueDate |-> IF editForm.dueDate # ""
                                    THEN ParseDate(editForm.dueDate)
                                    ELSE UndefinedDate],
                       now)
    IN  /\ requests < MaxEvents
        /\ requests' = requests + 1
        /\ tasks' = handleTaskUpdate(tasks, updatedTask)
        /\ upd' = [kind |-> "handleSaveEdit", before |-> tasks[i],
                   after |-> updatedTask, newStatus |-> editForm.status]
        /\ UNCHANGED <<now, status, tasksStore, genVars, normVars, docVars, aiVars, clientVars, call, out>>

(* handleTaskDelete; confirmed is the answer to confirm() *)
HandleTaskDelete(i, confirmed) ==
    /\ requests < MaxEvents
    /\ requests' = requests + 1
    /\ IF confirmed
       THEN /\ tasks' = SelectSeq(tasks, LAMBDA task : task.id # tasks[i].id)
            /\ upd' = [kind |-> "handleTaskDelete", before |-> tasks[i]]
       ELSE UNCHANGED <<tasks, upd>>
    /\ UNCHANGED <<now, status, tasksStore, genVars, normVars, docVars, aiVars, clientVars, call, out>>

NextBoard ==
    \/ Tick
    \/ \E formData \in CreateForms : HandleSubmit(formData)
    \/ \E i \in 1..Len(tasks), newStatus \in Statuses : HandleStatusChange(i, newStatus)
    \/ \E i \in 1..Len(tasks) : HandleComplete(i)
    \/ \E i \in 1..Len(tasks), editForm \in EditForms : HandleSaveEdit(i, editForm)
    \/ \E i \in 1..Len(tasks), confirmed \in BOOLEAN : HandleTaskDelete(i, confirmed)

SpecBoard == Init /\ [][NextBoard]_vars

(* The operations that add a task to a collection or take one out: the     *)
(* task store route and the task board, each with its own collection        *)
NextTasks ==
    \/ Tick
    \/ \E taskData \in PostBodies : POST(taskData)
    \/ \E taskId \in IdsOf(tasksStore) \cup {NoId, UnknownId} : DELETE(taskId)
    \/ \E formData \in CreateForms : HandleSubmit(formData)
    \/ \E i \in 1..Len(tasks), confirmed \in BOOLEAN : HandleTaskDelete(i, confirmed)

SpecTasks == Init /\ [][NextTasks]_vars

----------------------------------------------------------------------------
(* The document UI (DocumentUpload, DocumentCard) in front of the document  *)
(* routes.  A handler is a closure of the render in which its event fired:  *)
(* documents, inside it, is the collection of that render, also after an    *)
(* await.  The component hands each new collection to onDocumentsChange;    *)
(* its parent keeps it and gives it back as the documents prop.  A request  *)
(* is answered by the route of its URL; the answer and the handler's        *)
(* continuation are one step.                                               *)

nonUiVars == <<now, taskVars, normVars, libVars, voiceVars, chatVars>>

(* validateFile: on the files of the model the test of the upload route     *)
(* (the list of the client holds the two Excel types in addition)           *)
validateFile(file) == file.size <= MaxFileSize /\ IsSupported(file.type)

(* needsAnalysis of the upload response: !file.type.includes('text/') *)
needsAnalysis(file) == file.type # "text/plain"

NoDocument == [absent |-> TRUE]

(* JSON.stringify of a Date: its ISO string; of an Invalid Date: null *)
JsonDate(d) == IF d = InvalidDate THEN Null ELSE <<"ISO", d>>

(* new Date(iso) *)
ReviveDate(iso) == IF iso = Null THEN 0 ELSE iso[2]

(* A document as the response body carries it: uploadedAt is a string.  (A  *)
(* key that holds undefined is absent from the body; here it stays, with    *)
(* Undefined as its value.)                                                 *)
JsonDocument(document) ==
    [k \in DOMAIN document |->
        IF k = "uploadedAt" THEN JsonDate(document[k]) ELSE document[k]]

(* A task as the response body carries it *)
JsonTask(task) ==
    [k \in DOMAIN task |->
        IF k \in {"createdAt", "updatedAt", "dueDate"} THEN JsonDate(task[k]) ELSE task[k]]

(* An awaited fetch.  snapshot is documents of the handler's render, card   *)
(* tells a DocumentCard button started it, with holds the kinds of the      *)
(* requests that were awaited at the same time                              *)
Request(kind, document, file, snapshot, card) ==
    [kind |-> kind, document |-> document, file |-> file, snapshot |-> snapshot,
     card |-> card, with |-> {}]

(* The handler reaches its await *)
Launch(req) ==
    inflight' = Append([k \in 1..Len(inflight) |->
                           [inflight[k] EXCEPT !.with = @ \cup {req.kind}]],
                       [req EXCEPT !.with = {inflight[k].kind : k \in 1..Len(inflight)}])

(* isAnalyzing || isExtracting of the card of a document *)
CardBusy(documentId) ==
    \E k \in 1..Len(inflight) :
        inflight[k].card /\ inflight[k].document.id = documentId

(* documents.map(doc => doc.id === document.id ? updatedDocument : doc) *)
ReplaceDocument(docs, documentId, updatedDocument) ==
    [i \in 1..Len(docs) |-> IF docs[i].id = documentId THEN updatedDocument ELSE docs[i]]


(* handleFileUpload: [...documents, newDocument] *)
UploadedIntoSnapshot(snapshot, current, newDocument) == Append(snapshot, newDocument)

(* handleFileSelect, handleFileUpload up to await fetch *)
HandleFileUpload(file) ==
    /\ uiEvents < MaxEvents
    /\ uiEvents' = uiEvents + 1
    /\ IF file = NoFile
       THEN UNCHANGED inflight
       ELSE IF ~validateFile(file)
       THEN UNCHANGED inflight
       ELSE Launch(Request("upload", NoDocument, file, documents, FALSE))
    /\ UNCHANGED <<documents, timers, uiLog>>
    /\ UNCHANGED <<nonUiVars, status, requests, genVars, docVars, aiVars>>

(* The upload route answers; handleFileUpload from await fetch on *)
UploadSettles(k) ==
    LET req == inflight[k]
    IN  /\ req.kind = "upload"
        /\ UploadPOST(req.file)
        /\ inflight' = Splice(inflight, k)
        /\ IF status' = 201
           THEN LET data == JsonDocument(documentsStore'[Len(documentsStore')])
                    newDocument == [data EXCEPT !.uploadedAt = ReviveDate(@)]
                IN  /\ documents' = UploadedIntoSnapshot(req.snapshot, documents, newDocument)
                    /\ timers' = IF needsAnalysis(req.file)
                                 THEN timers
                                 ELSE Append(timers, [document |-> newDocument,
                                                      snapshot |-> req.snapshot])
                    /\ uiLog' = uiLog \cup {[kind |-> "upload", ok |-> TRUE,
                                             id |-> newDocument.id, with |-> req.with]}
           ELSE /\ UNCHANGED <<documents, timers>>
                /\ uiLog' = uiLog \cup {[kind |-> "upload", ok |-> FALSE,
                                         id |-> NoId, with |-> req.with]}
        /\ UNCHANGED uiEvents

(* The callback of setTimeout(() => handleAnalyzeDocument(newDocument),      *)
(* 1000), up to await fetch                                                 *)
TimerFires(k) ==
    /\ Launch(Request("analyze", timers[k].document, NoFile, timers[k].snapshot, FALSE))
    /\ timers' = Splice(timers, k)
    /\ UNCHANGED <<documents, uiLog, uiEvents>>
    /\ UNCHANGED <<nonUiVars, status, requests, genVars, docVars, aiVars>>

(* DocumentCard.handleAnalyze, handleAnalyzeDocument up to await fetch *)
HandleAnalyze(i) ==
    /\ uiEvents < MaxEvents
    /\ ~CardBusy(documents[i].id)
    /\ uiEvents' = uiEvents + 1
    /\ Launch(Request("analyze", documents[i], NoFile, documents, TRUE))
    /\ UNCHANGED <<documents, timers, uiLog>>
    /\ UNCHANGED <<nonUiVars, status, requests, genVars, docVars, aiVars>>

(* DocumentCard.handleExtractTasks, handleExtractTasks up to await fetch *)
HandleExtractTasks(i) ==
    /\ uiEvents < MaxEvents
    /\ ~CardBusy(documents[i].id)
    /\ documents[i].content # ""
    /\ uiEvents' = uiEvents + 1
    /\ Launch(Request("extract", documents[i], NoFile, documents, TRUE))
    /\ UNCHANGED <<documents, timers, uiLog>>
    /\ UNCHANGED <<nonUiVars, status, requests, genVars, docVars, aiVars>>

(* The analysis route answers; handleAnalyzeDocument from await fetch on *)
AnalyzeSettles(k, aiOk) ==
    LET req == inflight[k]
    IN  /\ req.kind = "analyze"
        /\ AnalyzePOST(req.document.id, aiOk)
        /\ inflight' = Splice(inflight, k)
        /\ IF status' = 200
           THEN LET updatedDocument ==
                        JsonDocument(analysisStore'[FindDocument(analysisStore',
                                                                req.document.id)])
                IN  documents' = ReplaceDocument(req.snapshot, req.document.id,
                                                 updatedDocument)
           ELSE UNCHANGED documents
        /\ uiLog' = uiLog \cup {[kind |-> "analyze", ok |-> status' = 200,
                                 id |-> req.document.id, with |-> req.with]}
        /\ UNCHANGED <<timers, uiEvents>>

(* The extract-tasks route answers; handleExtractTasks from await fetch on *)
ExtractSettles(k, aiOk) ==
    LET req == inflight[k]
    IN  /\ req.kind = "extract"
        /\ ExtractTasksPOST(req.document.id, aiOk)
        /\ inflight' = Splice(inflight, k)
        /\ IF status' = 200
           THEN LET updatedDocument ==
                        [extractedTasks |->
                            [j \in 1..Len(generated') |-> JsonTask(generated'[j])]]
                        @@ req.document
                IN  documents' = ReplaceDocument(req.snapshot, req.document.id,
                                                 updatedDocument)
           ELSE UNCHANGED documents
        /\ uiLog' = uiLog \cup {[kind |-> "extract", ok |-> status' = 200,
                                 id |-> req.document.id, with |-> req.with]}
        /\ UNCHANGED <<timers, uiEvents>>

(* handleDeleteDocument; confirmed is the answer to confirm() *)
HandleDeleteDocument(i, confirmed) ==
    /\ uiEvents < MaxEvents
    /\ uiEvents' = uiEvents + 1
    /\ IF confirmed
       THEN /\ documents' = SelectSeq(documents, LAMBDA doc : doc.id # documents[i].id)
            /\ uiLog' = uiLog \cup {[kind |-> "delete", ok |-> TRUE,
                                     id |-> documents[i].id, with |-> {}]}
       ELSE UNCHANGED <<documents, uiLog>>
    /\ UNCHANGED <<inflight, timers>>
    /\ UNCHANGED <<nonUiVars, status, requests, genVars, docVars, aiVars>>

NextUI ==
    \/ Tick
    \/ \E file \in Files : HandleFileUpload(file)
    \/ \E k \in 1..Len(inflight) : UploadSettles(k)
    \/ \E k \in 1..Len(timers) : TimerFires(k)
    \/ \E i \in 1..Len(documents) : HandleAnalyze(i)
    \/ \E i \in 1..Len(documents) : HandleExtractTasks(i)
    \/ \E k \in 1..Len(inflight), aiOk \in BOOLEAN : AnalyzeSettles(k, aiOk)
    \/ \E k \in 1..Len(inflight), aiOk \in BOOLEAN : ExtractSettles(k, aiOk)
    \/ \E i \in 1..Len(documents), confirmed \in BOOLEAN : HandleDeleteDocument(i, confirmed)

SpecUI == Init /\ [][NextUI]_vars

----------------------------------------------------------------------------
(* Voice commands: VoiceManager.parseVoiceCommand.  A transcript is the     *)
(* sequence of its characters.                                              *)

MaxWords == 4

(* The words a transcript is spoken from *)
Vocabulary ==
    { <<"S", "h", "o", "w">>,
      <<"m", "y">>,
      <<"c", "o", "m", "p", "l", "e", "t", "e", "d">>,
      <<"t", "a", "s", "k", "s">>,
      <<"t", "o", "d", "a", "y">>,
      <<"o", "v", "e", "r", "d", "u", "e">>,
      <<"n", "e", "w">>,
      <<"t", "a", "s", "k">> }

(* The sentences of n words, the words one blank apart *)
RECURSIVE Sentences(_)
Sentences(n) ==
    IF n = 0 THEN {<<>>}
    ELSE IF n = 1 THEN Vocabulary
    ELSE {s \o <<" ">> \o w : s \in Sentences(n - 1), w \in Vocabulary}

(* What the recognition may hand over: a sentence, with or without a blank  *)
(* in front                                                                 *)
Transcripts ==
    LET spoken == UNION {Sentences(n) : n \in 0..MaxWords}
    IN  spoken \cup {<<" ">> \o s : s \in spoken}

UpperCase == [S |-> "s", T |-> "t", C |-> "c", N |-> "n"]

(* transcript.toLowerCase() *)
toLowerCase(s) ==
    [i \in 1..Len(s) |-> IF s[i] \in DOMAIN UpperCase THEN UpperCase[s[i]] ELSE s[i]]

(* s.trim() *)
RECURSIVE trim(_)
trim(s) ==
    IF s = <<>> THEN s
    ELSE IF Head(s) = " " THEN trim(Tail(s))
    ELSE IF s[Len(s)] = " " THEN trim(SubSeq(s, 1, Len(s) - 1))
    ELSE s

(* s.includes(part) *)
includes(s, part) ==
    \E i \in 1..(Len(s) - Len(part) + 1) : SubSeq(s, i, i + Len(part) - 1) = part

(* s.startsWith(prefix) *)
startsWith(s, prefix) ==
    Len(s) >= Len(prefix) /\ SubSeq(s, 1, Len(prefix)) = prefix

(* The literals of parseVoiceCommand *)
Literal ==
    [createTask |-> <<"c", "r", "e", "a", "t", "e", " ", "t", "a", "s", "k">>,
     addTask    |-> <<"a", "d", "d", " ", "t", "a", "s", "k">>,
     newTask    |-> <<"n", "e", "w", " ", "t", "a", "s", "k">>,
     complete   |-> <<"c", "o", "m", "p", "l", "e", "t", "e">>,
     finish     |-> <<"f", "i", "n", "i", "s", "h">>,
     done       |-> <<"d", "o", "n", "e">>,
     show       |-> <<"s", "h", "o", "w">>,
     task       |-> <<"t", "a", "s", "k">>,
     today      |-> <<"t", "o", "d", "a", "y">>,
     overdue    |-> <<"o", "v", "e", "r", "d", "u", "e">>,
     completed  |-> <<"c", "o", "m", "p", "l", "e", "t", "e", "d">>,
     analyze    |-> <<"a", "n", "a", "l", "y", "z", "e">>,
     document   |-> <<"d", "o", "c", "u", "m", "e", "n", "t">>]

(* s.replace(/^\s*/, '') *)
RECURSIVE SkipBlanks(_)
SkipBlanks(s) == IF s # <<>> /\ Head(s) = " " THEN SkipBlanks(Tail(s)) ELSE s

(* lower.replace(/^(create task|add task|new task)\s*/, '') *)
WithoutCreatePrefix(lower) ==
    LET prefix == CHOOSE l \in {Literal.createTask, Literal.addTask, Literal.newTask} :
                      startsWith(lower, l)
    IN  SkipBlanks(SubSeq(lower, Len(prefix) + 1, Len(lower)))

(* The filter of the show rule: the first of the three words that lower     *)
(* includes                                                                 *)
ShowFilter(lower) ==
    IF includes(lower, Literal.today) THEN "today"
    ELSE IF includes(lower, Literal.overdue) THEN "overdue"
    ELSE IF includes(lower, Literal.completed) THEN "completed"
    ELSE "all"

parseVoiceCommand(transcript) ==
    LET lower == trim(toLowerCase(transcript))
    IN  IF \/ startsWith(lower, Literal.createTask)
           \/ startsWith(lower, Literal.addTask)
           \/ startsWith(lower, Literal.newTask)
        THEN [action |-> "create_task", parameters |-> [text |-> WithoutCreatePrefix(lower)]]
        ELSE IF \/ includes(lower, Literal.complete)
                \/ includes(lower, Literal.finish)
                \/ includes(lower, Literal.done)
        THEN [action |-> "complete_task", parameters |-> [query |-> lower]]
        ELSE IF includes(lower, Literal.show) /\ includes(lower, Literal.task)
        THEN [action |-> "show_tasks", parameters |-> [filter |-> ShowFilter(lower)]]
        ELSE IF includes(lower, Literal.analyze) /\ includes(lower, Literal.document)
        THEN [action |-> "analyze_document", parameters |-> <<>>]
        ELSE [action |-> "chat", parameters |-> [message |-> transcript]]

(* A call of parseVoiceCommand on a recognized transcript *)
ParseVoiceCommandCall(transcript) ==
    /\ call.fn = "none"
    /\ call' = [fn |-> "parseVoiceCommand", transcript |-> transcript]
    /\ out' = parseVoiceCommand(transcript)
    /\ UNCHANGED <<now, status, requests, taskVars, genVars, normVars, docVars, aiVars, clientVars, tasks>>

NextCmd == \E transcript \in Transcripts : ParseVoiceCommandCall(transcript)

SpecCmd == Init /\ [][NextCmd]_vars

----------------------------------------------------------------------------
(* The chat: AIChat with the VoiceManager it records with.  The recognizer  *)
(* is the browser's: it answers start() with a start event, then delivers   *)
(* at most one result (continuous = false) or an error, and ends.  A timer  *)
(* or interval callback may run at any time after it was set.               *)

MaxChatEvents == 2

clientRest == <<now, requests, taskVars, normVars, libVars, uiVars, genVars, docVars, aiVars,
                status>>

(* What the user may type *)
Inputs == { <<>>, <<" ">>, <<"h", "i">>, <<" ", "h", "i", " ">> }

(* What the recognizer may hear *)
Heard == { <<"h", "i">>, <<" ">> }

(* What POST /api/ai/chat may answer with status 200: whatever              *)
(* parseAIResponse built from the text of the AI                            *)
Replies ==
    { [response |-> "Sure.", generatedTasks |-> [array |-> <<>>]],
      [response |-> "", generatedTasks |-> [array |-> <<>>]],
      [response |-> "Sure.", generatedTasks |-> [string |-> "none"]] }

(* data.generatedTasks?.map(...) throws: the value is truthy and no array *)
MapThrows(data) == ~Has(data.generatedTasks, "array")

CouldNotProcess == "I apologize, but I couldn't process your request properly."
Apology == "I apologize, but I encountered an error processing your request. Please try again."

(* handleSendMessage that sends whatever it is given *)
IsBlankNever(message) == FALSE

(* !message.trim() *)
IsBlank(message) == trim(message) = <<>>

(* clearSession that leaves the session in place *)
clearSessionSkipped(session) == session

(* VoiceManager.clearSession *)
clearSession(session) == NoSession

(* handleSendMessage up to the awaited fetch.  heard: the transcript the    *)
(* message carries (0 for a typed one)                                      *)
HandleSendMessage(message, isVoice, heard) ==
    IF IsBlank(message)
    THEN UNCHANGED <<messages, isLoading, chatInflight, sends>>
    ELSE /\ sends' = sends + 1
         /\ messages' = Append(messages,
                               [role |-> "user", content |-> trim(message),
                                type |-> IF isVoice THEN "voice" ELSE "text",
                                send |-> sends + 1, heard |-> heard])
         /\ isLoading' = TRUE
         /\ chatInflight' = Append(chatInflight,
                                   [send |-> sends + 1, isVoice |-> isVoice, phase |-> "fetch"])

(* handleSubmit *)
HandleSubmit_Chat(inputValue) ==
    /\ chatEvents < MaxChatEvents
    /\ chatEvents' = chatEvents + 1
    /\ IF ~IsBlank(inputValue) /\ ~isLoading
       THEN HandleSendMessage(inputValue, FALSE, 0)
       ELSE UNCHANGED <<messages, isLoading, chatInflight, sends>>
    /\ UNCHANGED <<voiceVars, clientRest>>

(* chatInflight without its k-th call *)
Settled(k) == [j \in 1..(Len(chatInflight) - 1) |->
                  IF j < k THEN chatInflight[j] ELSE chatInflight[j + 1]]

(* The catch and finally of handleSendMessage *)
CatchAndFinally(k) ==
    /\ messages' = Append(messages,
                          [role |-> "assistant", content |-> Apology, type |-> "text",
                           send |-> chatInflight[k].send, heard |-> 0])
    /\ isLoading' = FALSE
    /\ chatInflight' = Settled(k)

(* handleSendMessage from the answer of POST /api/ai/chat on *)
ChatSettles(k, aiOk, data) ==
    /\ chatInflight[k].phase = "fetch"
    /\ ChatPOST(TRUE, aiOk)
    /\ IF status' # 200 \/ MapThrows(data)
       THEN CatchAndFinally(k)
       ELSE /\ messages' = Append(messages,
                   [role |-> "assistant",
                    content |-> IF data.response = "" THEN CouldNotProcess ELSE data.response,
                    type |-> IF chatInflight[k].isVoice THEN "voice" ELSE "text",
                    send |-> chatInflight[k].send, heard |-> 0])
            /\ IF chatInflight[k].isVoice
               THEN /\ chatInflight' = [chatInflight EXCEPT ![k].phase = "speak"]
                    /\ UNCHANGED isLoading
               ELSE /\ chatInflight' = Settled(k)
                    /\ isLoading' = FALSE
    /\ UNCHANGED <<sends, chatEvents, voiceVars>>

(* handleSendMessage when the fetch rejects *)
ChatFails(k) ==
    /\ chatInflight[k].phase = "fetch"
    /\ CatchAndFinally(k)
    /\ UNCHANGED <<sends, chatEvents, voiceVars, clientRest>>

(* handleSendMessage when voiceManager.speak resolves or rejects *)
SpeakEnds(k) ==
    /\ chatInflight[k].phase = "speak"
    /\ chatInflight' = Settled(k)
    /\ isLoading' = FALSE
    /\ UNCHANGED <<messages, sends, chatEvents, voiceVars, clientRest>>

(* recognition.stop() *)
Stopped(r) == IF r.state \in {"starting", "listening"} THEN [r EXCEPT !.state = "stopping"] ELSE r

(* VoiceManager.stopRecording: the recognizer and the session it leaves *)
stopRecording ==
    IF currentSession # NoSession /\ currentSession.isRecording
    THEN [recognition |-> Stopped(recognition),
          session |-> [currentSession EXCEPT !.isRecording = FALSE]]
    ELSE [recognition |-> recognition, session |-> currentSession]

(* if (session?.transcript) handleSendMessage(session.transcript, true) *)
SendTranscript(session) ==
    IF session # NoSession /\ session.transcript # NoTranscript
    THEN HandleSendMessage(session.transcript.text, TRUE, session.transcript.n)
    ELSE UNCHANGED <<messages, isLoading, chatInflight, sends>>

(* handleVoiceToggle, with the catch of a start() that throws *)
HandleVoiceToggle ==
    /\ chatEvents < MaxChatEvents
    /\ chatEvents' = chatEvents + 1
    /\ IF isRecording
       THEN /\ recognition' = stopRecording.recognition
            /\ isRecording' = FALSE
            /\ isListening' = FALSE
            /\ SendTranscript(stopRecording.session)
            /\ currentSession' = clearSession(stopRecording.session)
            /\ UNCHANGED <<polls, voiceTimers, voiceCount>>
       ELSE /\ voiceCount' = [voiceCount EXCEPT !.sessions = @ + 1]
            /\ currentSession' = [id |-> voiceCount.sessions + 1, isRecording |-> TRUE,
                                  transcript |-> NoTranscript]
            /\ IF recognition.state = "idle"
               THEN /\ recognition' = [state |-> "starting", resulted |-> FALSE,
                                       awaiting |-> [isRecording |-> isRecording]]
                    /\ isRecording' = TRUE
                    /\ isListening' = TRUE
               ELSE /\ recognition' = [recognition EXCEPT !.awaiting = NoPromise]
                    /\ isRecording' = FALSE
                    /\ isListening' = FALSE
            /\ UNCHANGED <<polls, voiceTimers, messages, isLoading, chatInflight, sends>>
    /\ UNCHANGED clientRest

(* recognition.onstart, and handleVoiceToggle from the awaited              *)
(* startRecording on: the poll and the timer, with the isRecording of the   *)
(* render the toggle was clicked in                                         *)
OnStart ==
    /\ recognition.state \in {"starting", "stopping"}
    /\ recognition.awaiting # NoPromise
    /\ recognition' = [recognition EXCEPT
                          !.state = IF @ = "starting" THEN "listening" ELSE @,
                          !.awaiting = NoPromise]
    /\ polls' = polls \cup {voiceCount.sessions}
    /\ voiceTimers' = voiceTimers \cup
           { [poll |-> voiceCount.sessions,
              isRecording |-> recognition.awaiting.isRecording,
              session |-> IF currentSession = NoSession THEN 0 ELSE currentSession.id] }
    /\ UNCHANGED <<isRecording, isListening, currentSession, voiceCount, chatVars, clientRest>>

(* recognition.onresult *)
OnResult(text) ==
    /\ recognition.state \in {"listening", "stopping"}
    /\ ~recognition.resulted
    /\ recognition' = [recognition EXCEPT !.resulted = TRUE]
    /\ voiceCount' = [voiceCount EXCEPT !.transcripts = @ + 1]
    /\ currentSession' =
           IF currentSession = NoSession THEN currentSession
           ELSE [currentSession EXCEPT
                    !.transcript = [n |-> voiceCount.transcripts + 1, text |-> text],
                    !.isRecording = FALSE]
    /\ UNCHANGED <<isRecording, isListening, polls, voiceTimers, chatVars, clientRest>>

(* recognition.onerror, with the catch of handleVoiceToggle when the        *)
(* promise of startRecording is still awaited                               *)
OnError ==
    /\ recognition.state \in {"starting", "listening"}
    /\ ~recognition.resulted
    /\ recognition' = [state |-> "stopping", resulted |-> TRUE, awaiting |-> NoPromise]
    /\ currentSession' =
           IF currentSession = NoSession THEN currentSession
           ELSE [currentSession EXCEPT !.isRecording = FALSE]
    /\ IF recognition.awaiting # NoPromise
       THEN isRecording' = FALSE /\ isListening' = FALSE
       ELSE UNCHANGED <<isRecording, isListening>>
    /\ UNCHANGED <<polls, voiceTimers, voiceCount, chatVars, clientRest>>

(* recognition.onend *)
OnEnd ==
    /\ recognition.state \in {"listening", "stopping"}
    /\ recognition' = [state |-> "idle", resulted |-> FALSE, awaiting |-> NoPromise]
    /\ currentSession' =
           IF currentSession = NoSession THEN currentSession
           ELSE [currentSession EXCEPT !.isRecording = FALSE]
    /\ UNCHANGED <<isRecording, isListening, polls, voiceTimers, voiceCount, chatVars,
                   clientRest>>

(* The callback of setInterval(..., 500) when it finds a transcript *)
PollFires(p) ==
    /\ p \in polls
    /\ currentSession # NoSession
    /\ ~currentSession.isRecording
    /\ currentSession.transcript # NoTranscript
    /\ isRecording' = FALSE
    /\ isListening' = FALSE
    /\ SendTranscript(currentSession)
    /\ currentSession' = clearSession(currentSession)
    /\ polls' = polls \ {p}
    /\ UNCHANGED <<recognition, voiceTimers, voiceCount, chatEvents, clientRest>>

(* The callback of setTimeout(..., 30000) *)
VoiceTimerFires(t) ==
    /\ t \in voiceTimers
    /\ IF t.isRecording
       THEN /\ recognition' = stopRecording.recognition
            /\ isRecording' = FALSE
            /\ isListening' = FALSE
            /\ SendTranscript(stopRecording.session)
            /\ currentSession' = clearSession(stopRecording.session)
       ELSE UNCHANGED <<recognition, isRecording, isListening, currentSession,
                        messages, isLoading, chatInflight, sends>>
    /\ polls' = polls \ {t.poll}
    /\ voiceTimers' = voiceTimers \ {t}
    /\ UNCHANGED <<voiceCount, chatEvents, clientRest>>

NextChat ==
    \/ \E inputValue \in Inputs : HandleSubmit_Chat(inputValue)
    \/ \E k \in 1..Len(chatInflight), aiOk \in BOOLEAN, data \in Replies :
          ChatSettles(k, aiOk, data)
    \/ \E k \in 1..Len(chatInflight) : ChatFails(k)
    \/ \E k \in 1..Len(chatInflight) : SpeakEnds(k)
    \/ HandleVoiceToggle
    \/ OnStart
    \/ \E text \in Heard : OnResult(text)
    \/ OnError
    \/ OnEnd
    \/ \E p \in polls : PollFires(p)
    \/ \E t \in voiceTimers : VoiceTimerFires(t)

SpecChat == Init /\ [][NextChat]_vars

----------------------------------------------------------------------------
(* Properties of the task store (Spec) *)

StoredTasks == {tasksStore[i] : i \in 1..Len(tasksStore)}
GeneratedTasks == {generated[i] : i \in 1..Len(generated)}

(* C1: an update of an existing task never changes the task's id or its     *)
(* createdAt, whatever the change set carries.                              *)
C1_UpdateKeepsIdAndCreatedAt ==
    upd.kind # "none" =>
        /\ upd.after.id = upd.before.id
        /\ upd.after.createdAt = upd.before.createdAt

(* C2: every task of the collection has updatedAt >= createdAt. *)
C2_UpdatedAtNotBeforeCreatedAt ==
    \A t \in StoredTasks \cup GeneratedTasks : t.updatedAt >= t.createdAt

(* C3: no two tasks of the collection have the same id. *)
C3_IdsUnique ==
    \A i, j \in 1..Len(tasksStore) : i # j => tasksStore[i].id # tasksStore[j].id

(* C4: every task produced or stored has a priority and a status among the  *)
(* enumerated values.                                                       *)
C4_PriorityAndStatusEnumerated ==
    \A t \in StoredTasks \cup GeneratedTasks :
        t.priority \in Priorities /\ t.status \in Statuses

----------------------------------------------------------------------------
(* Properties of the generation route (SpecGen) *)

AllRecords(recs) == \A i \in 1..Len(recs) : recs[i] # JsonNull

C6_UnparseableDueDateDropped ==
    /\ AllRecords(partials) /\ Len(generated) = Len(partials) =>
          \A i \in 1..Len(partials) :
              (Has(partials[i], "dueDate")
                 /\ ParseDate(partials[i].dueDate) = InvalidDate)
                => ~Has(generated[i], "dueDate")
    /\ \A t \in StoredTasks \cup GeneratedTasks :
          Has(t, "dueDate") => t.dueDate # InvalidDate

----------------------------------------------------------------------------
(* Properties of the normalizers (SpecNorm) *)

Open(sh) == IF sh = "tasks" THEN "[" ELSE "{"
Close(sh) == IF sh = "tasks" THEN "]" ELSE "}"

(* The span from the first opening bracket of the text to the last closing  *)
(* bracket of the text; <<>> when no closing bracket follows an opening one *)
GreedySpan(s, sh) ==
    IF \E i, j \in 1..Len(s) : i < j /\ s[i] = Open(sh) /\ s[j] = Close(sh)
    THEN SubSeq(s, CHOOSE i \in 1..Len(s) :
                       s[i] = Open(sh) /\ \A k \in 1..(i - 1) : s[k] # Open(sh),
                   CHOOSE j \in 1..Len(s) :
                       s[j] = Close(sh) /\ \A k \in (j + 1)..Len(s) : s[k] # Close(sh))
    ELSE <<>>

(* The typed fallback of each shape *)
Fallback(sh, s) ==
    IF sh = "chat"
    THEN [response |-> Trim(s), suggestions |-> <<>>, generatedTasks |-> <<>>]
    ELSE IF sh = "tasks"
    THEN <<>>
    ELSE [summary |-> s, insights |-> <<>>, extractedTasks |-> <<>>,
          keyTopics |-> <<>>, actionItems |-> <<>>]

(* The bracketed regions of the text that parse on their own *)
ParseableRegions(s, sh) ==
    {<<i, j>> \in (1..Len(s)) \X (1..Len(s)) :
        /\ i < j /\ s[i] = Open(sh) /\ s[j] = Close(sh)
        /\ JsonParse(SubSeq(s, i, j)).ok}

(* C7: each normalizer returns without raising, and returns the typed        *)
(* fallback when the text holds no bracketed literal or the literal fails    *)
(* to parse.                                                                 *)
C7_NormalizersNeverRaise ==
    shape # "none" =>
        /\ ~result.raised
        /\ (GreedySpan(raw, shape) = <<>> \/ ~JsonParse(GreedySpan(raw, shape)).ok)
              => result.value = Fallback(shape, raw)

C7_Witness ==
    /\ shape = "tasks"
    /\ GreedySpan(raw, shape) # <<>>
    /\ ~JsonParse(GreedySpan(raw, shape)).ok
    /\ ~result.raised
    /\ result.value = <<>>

(* C8: for a chat reply without a parseable object literal the response     *)
(* field is the trimmed raw text and suggestions and generatedTasks are     *)
(* empty.                                                                   *)
C8_ChatFallbackIsTrimmedText ==
    (shape = "chat" /\ ParseableRegions(raw, "chat") = {}) =>
        /\ ~result.raised
        /\ result.value.response = Trim(raw)
        /\ Has(result.value, "suggestions") /\ result.value.suggestions = <<>>
        /\ Has(result.value, "generatedTasks") /\ result.value.generatedTasks = <<>>

C8_Witness ==
    /\ shape = "chat"
    /\ ParseableRegions(raw, "chat") = {}
    /\ Len(raw) >= 3
    /\ raw[1] = " "
    /\ \E i \in 1..Len(raw) : raw[i] = "{"
    /\ raw[Len(raw)] = " "
    /\ Trim(raw) # <<>>
    /\ result.value.response = Trim(raw)

DocumentKeys == {"summary", "insights", "extractedTasks", "keyTopics", "actionItems"}

(* C9: when a document-analysis reply holds a parseable object, the result  *)
(* has every one of summary, insights, extractedTasks, keyTopics and        *)
(* actionItems, the ones the parsed object lacks as empty lists.            *)
C9_DocumentDefaultsMerged ==
    (shape = "document" /\ JsonParse(GreedySpan(raw, "document")).ok) =>
        \A k \in DocumentKeys :
            /\ Has(result.value, k)
            /\ ~Has(JsonParse(GreedySpan(raw, "document")).val.fields, k)
                  => result.value[k] = <<>>

(* C10: the normalizer tries one span only, the one from the first opening  *)
(* bracket to the last closing bracket of the text: the result is built     *)
(* from the parse of that span, and is the fallback when that span does not *)
(* parse, even when a shorter or later bracketed region parses on its own.  *)
C10_OnlyTheGreedySpanIsTried ==
    shape # "none" =>
        LET parsed == JsonParse(GreedySpan(raw, shape))
        IN  IF ~parsed.ok
            THEN result.value = Fallback(shape, raw)
            ELSE CASE shape = "tasks" -> result.value = parsed.val.items
                   [] shape = "document" -> result.value = parsed.val.fields
                   [] shape = "chat" ->
                        result.value.response =
                            IF Has(parsed.val.fields, "response")
                            THEN parsed.val.fields.response ELSE raw

C10_Witness ==
    /\ shape = "document"
    /\ ~JsonParse(GreedySpan(raw, shape)).ok
    /\ ParseableRegions(raw, shape) # {}
    /\ result.value = Fallback(shape, raw)

----------------------------------------------------------------------------
(* Properties of the document routes (SpecDoc) *)

DocumentsOf(store) == {store[i] : i \in 1..Len(store)}

(* Every document a route holds *)
AllDocuments ==
    DocumentsOf(documentsStore) \cup DocumentsOf(analysisStore) \cup DocumentsOf(extractStore)

(* The step merges a successful analysis response into the document id *)
AnalysisMergedInto(id) ==
    /\ docReq'.op = "analyze"
    /\ docReq'.documentId = id
    /\ status' = 200
    /\ aiRequested'

(* C11: a document's analysisComplete flag is false from upload onwards and  *)
(* becomes true only in the step that merges a successful analysis response *)
(* into that document; no failed analysis, extraction or other request sets *)
(* it.                                                                      *)
C11_AnalysisCompleteOnlyByMerge ==
    [][\A d2 \in AllDocuments' :
          d2.analysisComplete =>
              \/ \E d1 \in AllDocuments : d1.id = d2.id /\ d1.analysisComplete
              \/ AnalysisMergedInto(d2.id)]_vars

C11_Witness ==
    /\ docReq.op = "analyze"
    /\ status = 404
    /\ \E d \in DocumentsOf(documentsStore) :
          d.id = docReq.documentId /\ d.content # "" /\ ~d.analysisComplete

(* The request just served names a stored document whose content is absent  *)
(* or empty and asks for its analysis or for the extraction of its tasks    *)
EmptyDocumentRequested ==
    /\ docReq'.op \in {"analyze", "extract-tasks"}
    /\ \E d \in AllDocuments :
          d.id = docReq'.documentId /\ (~Has(d, "content") \/ d.content = "")

(* C12: an analysis or extraction request for a document without content    *)
(* is rejected with an error, no request goes to the AI endpoint, and the   *)
(* stored documents are left as they were.                                  *)
C12_EmptyContentFailsFast ==
    [][EmptyDocumentRequested =>
          /\ status' \in {400, 404}
          /\ ~aiRequested'
          /\ UNCHANGED <<documentsStore, analysisStore, extractStore>>]_vars

C12_Witness ==
    /\ docReq.op \in {"analyze", "extract-tasks"}
    /\ status \in {400, 404}
    /\ ~aiRequested
    /\ \E d \in DocumentsOf(documentsStore) : d.id = docReq.documentId /\ d.content = ""

----------------------------------------------------------------------------
(* Properties of the task library (SpecLib) *)

(* How many tasks of the collection satisfy P *)
CountTasks(P(_)) == Cardinality({i \in 1..Len(tasks) : P(tasks[i])})

(* Overdue, as the specification defines it: a due date strictly before now *)
(* and a status that is neither completed nor cancelled                     *)
IsOverdue(task) ==
    /\ Has(task, "dueDate")
    /\ task.dueDate # InvalidDate
    /\ task.dueDate < now
    /\ task.status \notin {"completed", "cancelled"}

(* C13: the overdue count of the statistics equals the number of tasks the  *)
(* overdue list holds, for every collection.                                *)
C13_StatsOverdueMatchesOverdueList ==
    call.fn = "calculateTaskStats" => out.overdue = Len(getOverdueTasks(tasks, now))

(* The GET request asks for the whole store, filtered by filter only *)
PlainGET(filter) ==
    /\ call.fn = "GET"
    /\ call.query = [filter |-> filter, sortBy |-> Null, category |-> Null, status |-> Null]

(* C14: the overdue list holds exactly the tasks with a due date strictly    *)
(* before now and a status other than completed and cancelled, in input     *)
(* order; no completed or cancelled task and no task without a due date is  *)
(* in it.                                                                   *)
C14_OverdueListIsExact ==
    /\ (call.fn = "getOverdueTasks" \/ PlainGET("overdue")) =>
          /\ out = SelectSeq(tasks, IsOverdue)
          /\ \A i \in 1..Len(out) :
                /\ out[i].status \notin {"completed", "cancelled"}
                /\ Has(out[i], "dueDate")
    /\ (call.fn = "GET" /\ call.query.filter = "overdue") =>
          \A i \in 1..Len(out) : IsOverdue(out[i])

C14_Witness ==
    /\ call.fn = "getOverdueTasks"
    /\ \E i \in 1..Len(tasks) :
          tasks[i].status = "cancelled" /\ Has(tasks[i], "dueDate") /\ tasks[i].dueDate < now
    /\ \E i \in 1..Len(tasks) : ~Has(tasks[i], "dueDate")
    /\ Len(out) = 1
    /\ out[1].status = "todo"

(* C15: the statistics are exact counts: total, completed, inProgress, one  *)
(* entry for each of the four priorities, and one entry for each category   *)
(* that occurs and for no other.                                            *)
C15_StatsAreExactCounts ==
    call.fn = "calculateTaskStats" =>
        /\ out.total = Len(tasks)
        /\ out.completed = CountTasks(LAMBDA task : task.status = "completed")
        /\ out.inProgress = CountTasks(LAMBDA task : task.status = "in-progress")
        /\ DOMAIN out.byPriority = Priorities
        /\ \A p \in Priorities :
              out.byPriority[p] = CountTasks(LAMBDA task : task.priority = p)
        /\ DOMAIN out.byCategory = {tasks[i].category : i \in 1..Len(tasks)}
        /\ \A c \in DOMAIN out.byCategory :
              out.byCategory[c] = CountTasks(LAMBDA task : task.category = c)

(* The place of a task of the output in the input *)
PlaceIn(ts, task) == CHOOSE k \in 1..Len(ts) : ts[k] = task

IsPermutationOfTasks(ts) ==
    /\ Len(ts) = Len(tasks)
    /\ {ts[i] : i \in 1..Len(ts)} = {tasks[i] : i \in 1..Len(tasks)}

PriorityRank(task) ==
    CASE task.priority = "urgent" -> 4
      [] task.priority = "high" -> 3
      [] task.priority = "medium" -> 2
      [] task.priority = "low" -> 1

Ranked(task) == task.priority \in Priorities

(* C16: sorting by priority, descending, gives a permutation of the input   *)
(* whose priority ranks never increase, tasks of equal priority in their    *)
(* input order.                                                             *)
C16_PrioritySortDescendingStable ==
    (call.fn = "sortTasks" /\ call.sortBy = "priority" /\ ~call.ascending) =>
        /\ IsPermutationOfTasks(out)
        /\ \A i, j \in 1..Len(out) :
              (i < j /\ Ranked(out[i]) /\ Ranked(out[j])) =>
                /\ PriorityRank(out[i]) >= PriorityRank(out[j])
                /\ PriorityRank(out[i]) = PriorityRank(out[j])
                      => PlaceIn(tasks, out[i]) < PlaceIn(tasks, out[j])

(* C17: sorting by due date puts every task with a due date in front of     *)
(* every task without one when ascending, and behind every task without one *)
(* when descending.                                                         *)
C17_NoDueDateSortsAsMaximum ==
    /\ (call.fn = "sortTasks" /\ call.sortBy = "dueDate") =>
          \A i, j \in 1..Len(out) :
              (Has(out[i], "dueDate") /\ ~Has(out[j], "dueDate")) =>
                  IF call.ascending THEN i < j ELSE j < i
    /\ (call.fn = "GET" /\ call.query.sortBy = "dueDate") =>
          \A i, j \in 1..Len(out) :
              (Has(out[i], "dueDate") /\ ~Has(out[j], "dueDate")) => i < j

(* The start of the local day now lies in *)
StartOfToday == CHOOSE d \in 0..now : d % DayLength = 0 /\ d <= now /\ now < d + DayLength

IsDueToday(task) ==
    /\ Has(task, "dueDate")
    /\ task.dueDate # InvalidDate
    /\ StartOfToday <= task.dueDate
    /\ task.dueDate < StartOfToday + DayLength

(* C18: the due-today list holds exactly the tasks whose due date lies in    *)
(* [start of today, start of tomorrow): a task due one unit after the start *)
(* of today is in it, a task due at the start of tomorrow and a task        *)
(* without a due date are not.                                              *)
C18_DueTodayIsHalfOpenDay ==
    /\ (call.fn = "getTasksDueToday" \/ PlainGET("today")) =>
          /\ out = SelectSeq(tasks, IsDueToday)
          /\ \A i \in 1..Len(tasks) :
                /\ (Has(tasks[i], "dueDate") /\ tasks[i].dueDate = StartOfToday + 1)
                      => \E k \in 1..Len(out) : out[k] = tasks[i]
                /\ (Has(tasks[i], "dueDate")
                       /\ tasks[i].dueDate = StartOfToday + DayLength)
                      => \A k \in 1..Len(out) : out[k] # tasks[i]
                /\ ~Has(tasks[i], "dueDate") => \A k \in 1..Len(out) : out[k] # tasks[i]
    /\ (call.fn = "GET" /\ call.query.filter = "today") =>
          \A i \in 1..Len(out) : IsDueToday(out[i])

C18_Witness ==
    /\ call.fn = "getTasksDueToday"
    /\ Len(tasks) = 3
    /\ \E i \in 1..3 : Has(tasks[i], "dueDate") /\ tasks[i].dueDate = StartOfToday + DayLength
    /\ \E i \in 1..3 : ~Has(tasks[i], "dueDate")
    /\ Len(out) = 1
    /\ out[1].dueDate = StartOfToday + 1

(* The task satisfies every criterion the filter supplies *)
Satisfies(task, filter) ==
    /\ Has(filter, "status") => task.status \in filter.status
    /\ Has(filter, "priority") => task.priority \in filter.priority
    /\ Has(filter, "category") => task.category \in filter.category
    /\ Has(filter, "aiGenerated") => task.aiGenerated = filter.aiGenerated
    /\ Has(filter, "dateRange") =>
          LET date == IF Has(task, "dueDate") THEN task.dueDate ELSE task.createdAt
          IN  /\ date # InvalidDate
              /\ filter.dateRange.start <= date
              /\ date <= filter.dateRange.end

(* C19: filtering returns, in input order, exactly the tasks that satisfy    *)
(* every criterion supplied; an absent criterion constrains nothing; the    *)
(* date range is tested on the due date, or on createdAt when there is no   *)
(* due date, both ends included.                                            *)
C19_FilterIsConjunctionOfCriteria ==
    call.fn = "filterTasks" =>
        /\ out = SelectSeq(tasks, LAMBDA task : Satisfies(task, call.filter))
        /\ call.filter = <<>> => out = tasks

----------------------------------------------------------------------------
(* Properties of the task board (SpecBoard) *)

(* C20: a status update of a task from any status to any status is accepted *)
(* and leaves the task with the new status, transitions out of completed    *)
(* and cancelled included.                                                  *)
C20_AnyStatusTransitionAccepted ==
    /\ upd.kind \in {"handleStatusChange", "handleComplete"} =>
          /\ upd.after.status = upd.newStatus
          /\ upd.after.id = upd.before.id
          /\ \E i \in 1..Len(tasks) : tasks[i] = upd.after
          /\ \A i \in 1..Len(tasks) : tasks[i].id = upd.after.id => tasks[i] = upd.after
    /\ requests < MaxEvents =>
          \A i \in 1..Len(tasks), newStatus \in Statuses :
              ENABLED HandleStatusChange(i, newStatus)

C20_Witness ==
    /\ upd.kind = "handleStatusChange"
    /\ upd.before.status = "cancelled"
    /\ upd.newStatus = "todo"
    /\ \E i \in 1..Len(tasks) : tasks[i].id = upd.before.id /\ tasks[i].status = "todo"

----------------------------------------------------------------------------
(* Properties of adding to and removing from the collections (SpecTasks) *)

(* after is before with one task more at its end *)
IsAppendOf(before, after) ==
    /\ Len(after) = Len(before) + 1
    /\ SubSeq(after, 1, Len(before)) = before

(* The fields a form or a request body gives a task *)
SameFields(a, b) ==
    /\ a.title = b.title
    /\ a.description = b.description
    /\ a.priority = b.priority
    /\ a.category = b.category
    /\ a.status = b.status

(* C21: adding a task to a collection is a pure append: an accepted POST    *)
(* and a submitted create form leave the tasks of the collection as they    *)
(* were and in their order and put the new task behind them, also when the  *)
(* collection already holds a task with the same title and fields.          *)
C21_AddIsPureAppend ==
    [][ /\ \A taskData \in PostBodies :
              (POST(taskData) /\ status' = 201) =>
                  /\ IsAppendOf(tasksStore, tasksStore')
                  /\ tasksStore'[Len(tasksStore')].title = taskData.title
        /\ \A formData \in CreateForms :
              (HandleSubmit(formData) /\ Trim(formData.title) # <<>>) =>
                  /\ IsAppendOf(tasks, tasks')
                  /\ tasks'[Len(tasks')].title = Trim(formData.title) ]_vars

C21_Witness ==
    /\ \E i, j \in 1..Len(tasks) : i < j /\ SameFields(tasks[i], tasks[j])
    /\ \E i, j \in 1..Len(tasksStore) :
          i < j /\ SameFields(tasksStore[i], tasksStore[j])

----------------------------------------------------------------------------
(* Properties of rejected requests to the task store (Spec) *)

HasTitle(taskData) ==
    Has(taskData, "title") /\ taskData.title # "" /\ taskData.title # NonString

RequestIds == IdsOf(tasksStore) \cup {NoId, UnknownId}

Rejected(code) == status' = code /\ tasksStore' = tasksStore

(* C23: a rejected request leaves the task store as it was: a create        *)
(* without a non-empty string title is answered 400, an update or delete    *)
(* without an id 400 and one whose id no stored task has 404, and the       *)
(* stored list is the same after the request as before.                     *)
C23_RejectedRequestLeavesStore ==
    [][ /\ \A taskData \in {body \in PostBodies : ~HasTitle(body)} :
              POST(taskData) => Rejected(400)
        /\ \A changes \in PutChanges :
              /\ PUT(NoId, changes) => Rejected(400)
              /\ \A id \in RequestIds \ ({NoId} \cup IdsOf(tasksStore)) :
                    PUT(id, changes) => Rejected(404)
        /\ DELETE(NoId) => Rejected(400)
        /\ \A taskId \in RequestIds \ ({NoId} \cup IdsOf(tasksStore)) :
              DELETE(taskId) => Rejected(404) ]_vars

C23_Witness ==
    /\ status \in {400, 404}
    /\ Len(tasksStore) > 0
    /\ upd # NoUpdate

----------------------------------------------------------------------------
(* Properties of a failing AI endpoint (SpecDoc) *)

(* The messages a caller is handed when the AI endpoint failed *)
AIClientMessages ==
    {AIClientErrors.chat, AIClientErrors.analyzeDocument, AIClientErrors.generateTasks}

(* The step sent one request to the AI endpoint, answered 500 with an error *)
(* text and the message of AIClient, and left every document store alone    *)
AIFailureReported ==
    /\ aiFetches' = 1
    /\ status' = 500
    /\ Has(errorBody', "error") /\ errorBody'.error # ""
    /\ Has(errorBody', "details") /\ errorBody'.details \in AIClientMessages
    /\ UNCHANGED <<documentsStore, analysisStore, extractStore>>

----------------------------------------------------------------------------
(* Properties of the document lifecycle across the routes (SpecDoc) *)

UploadedIds == {documentsStore[i].id : i \in 1..Len(documentsStore)}

(* The request found the document d of the upload store; when it was        *)
(* answered 200 that store holds the results under d                        *)
FoundAndMerged(d, keys) ==
    /\ status' # 404
    /\ status' = 200 =>
          \E i \in 1..Len(documentsStore') :
              /\ documentsStore'[i].id = d
              /\ keys \subseteq DOMAIN documentsStore'[i]

(* C25: the document an upload created is the record analysis and          *)
(* extraction change: a request to analyse, or to extract the tasks of, an  *)
(* uploaded document finds it by its id and puts the results into the       *)
(* document store.                                                          *)
C25_UploadedDocumentIsFound ==
    [][ \A d \in UploadedIds :
          /\ AnalyzePOST(d, TRUE)
                => FoundAndMerged(d, {"summary", "insights", "extractedTasks"})
          /\ ExtractTasksPOST(d, TRUE)
                => FoundAndMerged(d, {"extractedTasks"}) ]_vars

----------------------------------------------------------------------------
(* Properties of the document UI (SpecUI) *)

DocumentIdsShown == {documents[i].id : i \in 1..Len(documents)}

Deleted(id) == \E e \in uiLog : e.kind = "delete" /\ e.id = id

(* C22: a document leaves the collection only through a delete of that      *)
(* document: a document that an upload has put into the collection and that *)
(* no delete has named is in the collection, whatever uploads, analyses and *)
(* extractions have run since.                                              *)
C22_RemovedOnlyByDelete ==
    \A e \in uiLog :
        (e.kind = "upload" /\ e.ok /\ ~Deleted(e.id)) => e.id \in DocumentIdsShown

(* The collection shows what the request e was answered with *)
Reflected(e) ==
    \E i \in 1..Len(documents) :
        /\ documents[i].id = e.id
        /\ e.kind = "analyze" => documents[i].analysisComplete
        /\ e.kind = "extract" => Has(documents[i], "extractedTasks")

(* e ran at the same time as an analysis or extraction request, or is one   *)
(* and ran at the same time as another request                              *)
RanBesideAnalysis(e) ==
    \/ e.with \cap {"analyze", "extract"} # {}
    \/ e.kind \in {"analyze", "extract"} /\ e.with # {}

(* C28: when an analysis or extraction request was awaited at the same time *)
(* as another such request or an upload, then once every request has been   *)
(* answered the collection shows every result the requests brought: no      *)
(* answer overwrites or discards what an earlier answer put into the        *)
(* collection.                                                              *)
C28_NoLostUpdate ==
    (inflight = <<>> /\ timers = <<>> /\ \E a \in uiLog : RanBesideAnalysis(a)) =>
        \A e \in uiLog :
            (e.ok /\ e.kind # "delete" /\ ~Deleted(e.id)) => Reflected(e)

----------------------------------------------------------------------------
(* Properties of the voice commands (SpecCmd) *)

(* C27: a transcript that contains both 'show' and 'task' is parsed to the  *)
(* show_tasks command, with the filter 'today', 'overdue' or 'completed'    *)
(* when the transcript contains that word and 'all' otherwise.              *)
C27_ShowTasksCommand ==
    (/\ call.fn = "parseVoiceCommand"
     /\ includes(toLowerCase(call.transcript), Literal.show)
     /\ includes(toLowerCase(call.transcript), Literal.task))
        => /\ out.action = "show_tasks"
           /\ out.parameters.filter = ShowFilter(toLowerCase(call.transcript))

----------------------------------------------------------------------------
(* Properties of the chat and its voice recording (SpecChat) *)

(* The user messages and the assistant messages of a call of handleSendMessage *)
MessagesOf(id, role) ==
    {i \in 1..Len(messages) : messages[i].send = id /\ messages[i].role = role}

AwaitsFetch(id) ==
    \E k \in 1..Len(chatInflight) : chatInflight[k].send = id /\ chatInflight[k].phase = "fetch"

(* What a user or a recognizer may give that trims to nothing *)
BlankInputs == {m \in Inputs \cup Heard : trim(m) = <<>>}

OneUserOneAssistant ==
    /\ \A i \in 2..Len(messages) : messages[i].send \in 1..sends
    /\ \A i \in 1..Len(messages) : messages[i].role = "user" => messages[i].content # <<>>
    /\ \A id \in 1..sends :
          /\ Cardinality(MessagesOf(id, "user")) = 1
          /\ Cardinality(MessagesOf(id, "assistant")) = IF AwaitsFetch(id) THEN 0 ELSE 1
          /\ \A i \in MessagesOf(id, "assistant") :
                messages[i].content \in {"Sure.", CouldNotProcess, Apology}
    /\ chatInflight = <<>> => ~isLoading

VoiceMessages == {i \in 1..Len(messages) : messages[i].heard # 0}

InProgress(t) ==
    /\ isRecording
    /\ currentSession # NoSession
    /\ currentSession.id = t.session
    /\ currentSession.isRecording
    /\ recognition.state = "listening"

(* C26: when the 30-second timer of a recording fires while that recording  *)
(* is still going on, it stops the recognizer, clears the recording and     *)
(* listening flags and clears the session.                                  *)
C26_TimerStopsRecording ==
    [][\A t \in voiceTimers :
          (InProgress(t) /\ VoiceTimerFires(t)) =>
              /\ recognition'.state # "listening"
              /\ ~isRecording'
              /\ ~isListening'
              /\ currentSession' = NoSession]_vars

====
